---- MODULE Spec2Model ----
(***************************************************************************)
(* Observatory seeder pipeline (observatory_seeder/): the output merger    *)
(* (validate.py), the orchestrator with its dedupe and URL validation      *)
(* phases (run.py), the checkpoint normalizer (normalize_checkpoint.py),   *)
(* the image downloader and the Commons search (download.py), the website  *)
(* validator (url_validator.py) and the discovery records (discover.py).   *)
(*                                                                         *)
(* Representation.  A string is the sequence of its code points.  A        *)
(* coordinate is an integer number of ten-thousandths of a degree, so      *)
(* 1.0004 degrees is 10004.  Where the double of a coordinate makes        *)
(* round() or int(val * 1000) differ from the decimal arithmetic, the      *)
(* coordinate is listed in HalfwayAbove, HalfwayBelow or ProductBelow.     *)
(***************************************************************************)
EXTENDS Integers, Sequences, FiniteSets, TLC

\* Longest new_observatories list handed to one merge call.
MaxNew == 2
\* Longest observatories list validated_observatories.json grows to.
MaxFile == 3
\* Most observatories one discovery query returns.
MaxDiscovered == 3
\* Longest list of per-observatory items in a checkpoint.
MaxItems == 2
\* Most download calls made in one process.
MaxCalls == 5
\* Largest max_retries a direct download_image call is given.
MaxRetries == 3
\* Most pieces of text a fetched page is made of.
MaxTokens == 3
\* Most new images one Commons search response adds to the results.
MaxFound == 2

VARIABLES
    output_file,    \* OUTPUT_FILE, validated_observatories.json
    merge_call,     \* the latest merge_validated_observatories call
    merges,         \* merge_validated_observatories run by concurrent processes
    args,           \* run.py: the parsed command line
    main_pc,        \* run.py: where main() stands
    temp_dir,       \* TEMP_DIR with discovered.json
    run,            \* run.py: what main() has done and observed so far
    checkpoint,     \* the JSON value of a checkpoint file
    nc_call,        \* the latest normalize_checkpoint call
    nf,             \* the normalize_file call on the checkpoint file
    _rate_limit_state,  \* download.py: the module-level rate limit state
    dl,             \* the download call in progress
    dl_log,         \* what the download calls of this process have done
    commons,        \* download.py: the search_wikimedia_commons call
    url_target,     \* url_validator.py: a URL and what requesting it gives
    validation,     \* the result of validate_website_url on it
    find_args,      \* the arguments of find_best_website_url and the network
    find_call,      \* what the call did and returned
    raw_elevation,  \* discover.py: an elevation as Wikidata gives it
    elevation,      \* what normalize_elevation returned for it
    wd_rows,        \* discover.py: two rows of the SPARQL result
    built           \* the Observatory objects built from them, with their slugs

merge_vars == <<merge_call, merges>>
run_vars == <<args, main_pc, temp_dir, run>>
checkpoint_vars == <<checkpoint, nc_call, nf>>
download_vars == <<_rate_limit_state, dl, dl_log, commons>>
url_vars == <<url_target, validation>>
find_vars == <<find_args, find_call>>
discover_vars == <<raw_elevation, elevation, wd_rows, built>>
vars == <<output_file, merge_call, merges, args, main_pc, temp_dir, run, checkpoint, nc_call, nf,
          _rate_limit_state, dl, dl_log, commons, url_target, validation,
          find_args, find_call, raw_elevation, elevation, wd_rows, built>>

-----------------------------------------------------------------------------
(* Strings *)

\* str.lower() on ASCII code points.
LowerChar(c) == IF c >= 65 /\ c <= 90 THEN c + 32 ELSE c

Lower(s) == [i \in 1..Len(s) |-> LowerChar(s[i])]

\* The regular expression class \s on ASCII: space, \t \n \v \f \r.
IsSpace(c) == c = 32 \/ (c >= 9 /\ c <= 13)

RECURSIVE LStrip(_)
LStrip(s) ==
    IF s # <<>> /\ IsSpace(s[1]) THEN LStrip(Tail(s)) ELSE s

RECURSIVE RStrip(_)
RStrip(s) ==
    IF s # <<>> /\ IsSpace(s[Len(s)]) THEN RStrip(SubSeq(s, 1, Len(s) - 1)) ELSE s

\* str.strip()
Strip(s) == RStrip(LStrip(s))

\* re.sub(r'[^a-z0-9\s]', '', s)
RemoveSpecial(s) ==
    SelectSeq(s, LAMBDA c : (c >= 97 /\ c <= 122) \/ (c >= 48 /\ c <= 57) \/ IsSpace(c))

\* re.sub(r'\s+', ' ', s): every maximal run of whitespace becomes one space.
RECURSIVE CollapseSpace(_)
CollapseSpace(s) ==
    IF s = <<>> THEN <<>>
    ELSE IF IsSpace(s[1])
         THEN <<32>> \o CollapseSpace(LStrip(s))
         ELSE <<s[1]>> \o CollapseSpace(Tail(s))

\* Python's < on two strings: lexicographic on code points.
RECURSIVE StrLess(_, _)
StrLess(s, t) ==
    IF t = <<>> THEN FALSE
    ELSE IF s = <<>> THEN TRUE
    ELSE IF s[1] # t[1] THEN s[1] < t[1]
    ELSE StrLess(Tail(s), Tail(t))

-----------------------------------------------------------------------------
(* Observatory records *)

\* The names "Ab", "a-b" and "A  b" (two spaces).
NameAb == <<65, 98>>
NameA_b == <<97, 45, 98>>
NameA__b == <<65, 32, 32, 98>>

\* Observatory dicts: name, latitude and longitude (0.0004 degrees is 4).
ObsDicts ==
    { [name |-> NameAb,   latitude |-> 4,  longitude |-> 0],
      [name |-> NameA_b,  latitude |-> 6,  longitude |-> 0],
      [name |-> NameA__b, latitude |-> 4,  longitude |-> 0],
      [name |-> NameAb,   latitude |-> -4, longitude |-> 0],
      [name |-> NameAb,   latitude |-> 4,  longitude |-> 10] }

RECURSIVE SeqsUpTo(_, _)
SeqsUpTo(S, n) ==
    IF n = 0 THEN { <<>> }
    ELSE LET shorter == SeqsUpTo(S, n - 1)
         IN  shorter \cup { Append(s, x) : s \in { t \in shorter : Len(t) = n - 1 }, x \in S }

-----------------------------------------------------------------------------
(* validate.py: the merge dedupe key *)

RECURSIVE Pow10(_)
Pow10(n) == IF n = 0 THEN 1 ELSE 10 * Pow10(n - 1)

\* int(x) of Python: truncation toward zero (TLA+'s \div rounds down).
IntTrunc(a, b) == IF a >= 0 THEN a \div b ELSE -((-a) \div b)

\* Coordinates whose double lies above (below) the decimal halfway point it
\* prints as: 0.005 is the double 0.005000000000000000104..., 0.015 the
\* double 0.01499999999999999944..., 2.005 the double 2.00499999999999989...
HalfwayAbove == { 50 }
HalfwayBelow == { 150, 20050 }

\* Coordinates whose product with 1000 is a double just below the whole
\* number: 2.006 * 1000 is 2005.9999999999998.
ProductBelow == { 20060 }

\* Python's round(number, ndigits): the decimal nearest to the double, an
\* exact tie going to the even digit.
round(number, ndigits) ==
    LET step == Pow10(4 - ndigits)
        low == (number \div step) * step
        rem == number - low
    IN  IF 2 * rem < step THEN low
        ELSE IF 2 * rem > step THEN low + step
        ELSE IF number \in HalfwayAbove THEN low + step
        ELSE IF number \in HalfwayBelow THEN low
        ELSE IF (low \div step) % 2 = 0 THEN low ELSE low + step

\* int(val * 10**decimals) / 10**decimals, in ten-thousandths of a degree.
_truncate_coord(val, decimals) ==
    LET step == Pow10(4 - decimals)
        product == IF val \in ProductBelow THEN val - 1 ELSE val
    IN  IntTrunc(product, step) * step

_normalize_name(name) == CollapseSpace(RemoveSpecial(Strip(Lower(name))))

_make_dedupe_key_coords_only(obs) ==
    << _truncate_coord(obs.latitude, 3), _truncate_coord(obs.longitude, 3), <<>> >>

_make_dedupe_key(obs) ==
    << _truncate_coord(obs.latitude, 3),
       _truncate_coord(obs.longitude, 3),
       _normalize_name(obs.name) >>

-----------------------------------------------------------------------------
(* validate.py: merge_validated_observatories *)

NoFile == [exists |-> FALSE, total_validated |-> 0, observatories |-> <<>>]

WrittenFile(list) ==
    [exists |-> TRUE, total_validated |-> Len(list), observatories |-> list]

\* Lines 138-142: the observatories of the file, [] when there is no file.
LoadExisting_forgotten(file) == <<>>

LoadExisting(file) == IF file.exists THEN file.observatories ELSE <<>>

\* Line 150: whether the key of a new entry has not been met.
Unseen_always(key, existing_keys) == TRUE

Unseen(key, existing_keys) == key \notin existing_keys

\* Lines 148-154: the loop over new_observatories from index i on.  The
\* result is the grown list and the indices of the entries appended.
RECURSIVE MergeLoop(_, _, _, _)
MergeLoop(existing, existing_keys, new_observatories, i) ==
    IF i > Len(new_observatories)
    THEN [existing |-> existing, appended |-> {}]
    ELSE LET obs == new_observatories[i]
             key == _make_dedupe_key(obs)
         IN  IF Unseen(key, existing_keys)
             THEN LET rest == MergeLoop(Append(existing, obs), existing_keys \cup {key},
                                        new_observatories, i + 1)
                  IN  [rest EXCEPT !.appended = @ \cup {i}]
             ELSE MergeLoop(existing, existing_keys, new_observatories, i + 1)

\* key=lambda x: x.get('name', '').lower()
SortKey_raw(x) == x.name

SortKey(x) == Lower(x.name)

\* list.sort is stable: an element goes after the elements whose key is not greater.
RECURSIVE InsertByKey(_, _)
InsertByKey(sorted, x) ==
    IF sorted = <<>> THEN <<x>>
    ELSE IF StrLess(SortKey(x), SortKey(sorted[1]))
         THEN <<x>> \o sorted
         ELSE <<sorted[1]>> \o InsertByKey(Tail(sorted), x)

RECURSIVE SortByName(_)
SortByName(list) ==
    IF list = <<>> THEN <<>>
    ELSE InsertByKey(SortByName(SubSeq(list, 1, Len(list) - 1)), list[Len(list)])

\* Line 145: the dedupe keys of the entries already in the file.
ExistingKeys_unseeded(existing) == {}

ExistingKeys(existing) == { _make_dedupe_key(existing[k]) : k \in 1..Len(existing) }

\* merge_call records the latest call: its argument, the file's list before
\* it, the indices of the argument's entries it appended, what it returned,
\* and whether the call before it had the same argument (then with that
\* call's returned counts).
NoCall ==
    [called |-> FALSE, new |-> <<>>, before |-> <<>>, appended |-> {},
     total_count |-> 0, new_count |-> 0,
     repeat |-> FALSE, prev_total |-> 0, prev_new_count |-> 0]

merge_validated_observatories(new_observatories) ==
    LET existing == LoadExisting(output_file)
        merged == MergeLoop(existing, ExistingKeys(existing), new_observatories, 1)
        sorted == SortByName(merged.existing)
        again == merge_call.called /\ merge_call.new = new_observatories
    IN  /\ Len(output_file.observatories) + Len(new_observatories) <= MaxFile
        /\ output_file' = WrittenFile(sorted)
        /\ merge_call' =
              [called |-> TRUE,
               new |-> new_observatories,
               before |-> output_file.observatories,
               appended |-> merged.appended,
               total_count |-> Len(sorted),
               new_count |-> Cardinality(merged.appended),
               repeat |-> again,
               prev_total |-> IF again THEN merge_call.total_count ELSE 0,
               prev_new_count |-> IF again THEN merge_call.new_count ELSE 0]

-----------------------------------------------------------------------------
(* validate.py: merge_validated_observatories run by two processes *)

MergeProcs == {1, 2}

\* An invocation: where it stands, its argument, the sorted list it will
\* write and the entries it appended to it.
IdleInvocation == [pc |-> "idle", new |-> <<>>, existing |-> <<>>, added |-> {}]

\* merges: the invocation of each process; the entries the invocations that
\* returned counted as added; and whether an invocation ever loaded the
\* file while another stood between its load and the end of its write.
NoInvocations ==
    [inv |-> [p \in MergeProcs |-> IdleInvocation], counted |-> {}, overlapped |-> FALSE]

\* The observatories the processes merge: "Ab" and "a-b", which have one
\* dedupe key, and "Ab" a thousandth of a degree further east.
ConcurrentDicts == { obs \in ObsDicts : obs.latitude > 0 /\ obs.name # NameA__b }

\* Lines 138-157: the file is loaded and the merged, sorted list built in
\* memory. A file another process has opened for writing and not yet
\* closed holds no complete JSON, and json.load raises on it.
merge_load(p, new_observatories) ==
    LET others == MergeProcs \ {p}
        existing == LoadExisting(output_file)
        merged == MergeLoop(existing, ExistingKeys(existing), new_observatories, 1)
    IN  /\ merges.inv[p].pc = "idle"
        /\ Len(output_file.observatories) + Len(new_observatories) <= MaxFile
        /\ merges' =
              [merges EXCEPT
                 !.inv[p] =
                     IF \E q \in others : merges.inv[q].pc = "writing"
                     THEN [IdleInvocation EXCEPT !.pc = "raised", !.new = new_observatories]
                     ELSE [pc |-> "loaded", new |-> new_observatories,
                           existing |-> SortByName(merged.existing),
                           added |-> { new_observatories[i] : i \in merged.appended }],
                 !.overlapped = @ \/ \E q \in others : merges.inv[q].pc \in {"loaded", "writing"}]
        /\ UNCHANGED <<output_file, merge_call, run_vars, checkpoint_vars, download_vars,
                       url_vars, find_vars, discover_vars>>

\* Line 169: open(OUTPUT_FILE, 'w')
merge_open_for_writing(p) ==
    /\ merges.inv[p].pc = "loaded"
    /\ merges' = [merges EXCEPT !.inv[p].pc = "writing"]
    /\ UNCHANGED <<output_file, merge_call, run_vars, checkpoint_vars, download_vars,
                   url_vars, find_vars, discover_vars>>

\* Lines 170-172: json.dump, the file is closed, and the counts returned.
merge_dump(p) ==
    /\ merges.inv[p].pc = "writing"
    /\ output_file' = WrittenFile(merges.inv[p].existing)
    /\ merges' = [merges EXCEPT !.inv[p].pc = "returned",
                                !.counted = @ \cup merges.inv[p].added]
    /\ UNCHANGED <<merge_call, run_vars, checkpoint_vars, download_vars,
                   url_vars, find_vars, discover_vars>>

-----------------------------------------------------------------------------
(* run.py: files, discovered entries, websites *)

NoUrl == [scheme |-> "none", host |-> "none"]

Urls == [scheme : {"http", "https"}, host : {"obs.example"}]

\* url.replace('http://', 'https://', 1)
HttpsOf(url) == [url EXCEPT !.scheme = "https"]

NoMetadata == [present |-> FALSE, phone |-> FALSE, website |-> NoUrl]

\* An entry's type_metadata dict: phone_number with phone_display, website.
Metadata(phone, website) == [present |-> TRUE, phone |-> phone, website |-> website]

Entry(name, latitude, longitude, type_metadata) ==
    [name |-> name, latitude |-> latitude, longitude |-> longitude,
     type_metadata |-> type_metadata]

\* What discover_observatories can return, as run_discovery writes it:
\* coordinates rounded to 3 decimals (0.004, 0.006, 0.005, 0.015 degrees),
\* type_metadata only when it holds a phone or a website.
DiscoveredEntries ==
    { Entry(NameAb,   40,  0,    Metadata(TRUE, [scheme |-> "http", host |-> "obs.example"])),
      Entry(NameA_b,  60,  0,    Metadata(FALSE, [scheme |-> "https", host |-> "obs.example"])),
      Entry(NameA__b, 50,  0,    Metadata(TRUE, NoUrl)),
      Entry(NameAb,   150, 0,    NoMetadata),
      Entry(NameA_b,  40,  1000, Metadata(FALSE, [scheme |-> "http", host |-> "obs.example"])) }

\* validated_observatories.json as earlier merges left it, with entries at
\* 0.0044 and 0.0149 degrees of latitude.
KnownA == [name |-> NameA_b, latitude |-> 44,  longitude |-> 0]
KnownB == [name |-> NameAb,  latitude |-> 149, longitude |-> 0]

KnownFiles ==
    { NoFile, WrittenFile(<<>>), WrittenFile(<<KnownA>>), WrittenFile(<<KnownB>>),
      WrittenFile(<<KnownA, KnownB>>) }

NoDiscoveryFile == [exists |-> FALSE, observatories |-> <<>>]

DiscoveryFile(list) == [exists |-> TRUE, observatories |-> list]

NoTempDir == [exists |-> FALSE, discovered |-> NoDiscoveryFile]

TempDir(discovered) == [exists |-> TRUE, discovered |-> discovered]

\* The elements of list at the indices of keep, in their order.
RECURSIVE SubList(_, _, _)
SubList(list, keep, i) ==
    IF i > Len(list) THEN <<>>
    ELSE (IF i \in keep THEN <<list[i]>> ELSE <<>>) \o SubList(list, keep, i + 1)

-----------------------------------------------------------------------------
(* run.py: run_dedupe *)

\* Lines 137-139 and 148: coordinates rounded to 2 decimals.
CoordKey(obs) == << round(obs.latitude, 2), round(obs.longitude, 2) >>

\* Lines 130-139: the keys of the entries of validated_observatories.json.
ExistingSet(file) ==
    IF file.exists
    THEN { CoordKey(file.observatories[k]) : k \in 1..Len(file.observatories) }
    ELSE {}

\* Lines 149-156: whether an entry is dropped.
IsDuplicate_existing_only(key, existing_set, seen_coords) == key \in existing_set

IsDuplicate(key, existing_set, seen_coords) ==
    key \in existing_set \/ key \in seen_coords

\* Lines 144-156: the loop over the discovered entries from index i on; the
\* result is the set of indices kept.
RECURSIVE DedupeLoop(_, _, _, _)
DedupeLoop(observatories, existing_set, seen_coords, i) ==
    IF i > Len(observatories) THEN {}
    ELSE LET key == CoordKey(observatories[i])
         IN  IF IsDuplicate(key, existing_set, seen_coords)
             THEN DedupeLoop(observatories, existing_set, seen_coords, i + 1)
             ELSE {i} \cup DedupeLoop(observatories, existing_set, seen_coords \cup {key}, i + 1)

\* run_dedupe: the indices kept, discovered.json afterwards, the list returned.
run_dedupe(dir, file) ==
    IF ~dir.discovered.exists
    THEN [kept |-> {}, temp_dir |-> dir, returned |-> <<>>]
    ELSE LET observatories == dir.discovered.observatories
             kept == DedupeLoop(observatories, ExistingSet(file), {}, 1)
             new_observatories == SubList(observatories, kept, 1)
         IN  [kept |-> kept,
              temp_dir |-> [dir EXCEPT !.discovered = DiscoveryFile(new_observatories)],
              returned |-> new_observatories]

-----------------------------------------------------------------------------
(* run.py: run_url_validation *)

\* What validate_website_url finds for one website: the site is invalid; or
\* it is valid at final_url (response.url), and the HTTPS probe of an
\* http:// final_url then succeeds or fails.
UrlOutcomes ==
    { [valid |-> FALSE, final_url |-> NoUrl, https_valid |-> FALSE] }
    \cup [valid : {TRUE}, final_url : Urls, https_valid : BOOLEAN]

\* Lines 208-239: one entry, under one outcome.
ValidateEntry_keeps_invalid(obs, outcome) ==
    IF outcome.valid /\ obs.type_metadata.website # NoUrl
    THEN [obs EXCEPT !.type_metadata.website = outcome.final_url]
    ELSE obs

ValidateEntry(obs, outcome) ==
    LET metadata == obs.type_metadata
        website == metadata.website
    IN  IF ~metadata.present \/ website = NoUrl THEN obs
        ELSE IF outcome.valid
        THEN LET final_url ==
                     IF outcome.final_url.scheme = "http" /\ outcome.https_valid
                     THEN HttpsOf(outcome.final_url)
                     ELSE outcome.final_url
             IN  [obs EXCEPT !.type_metadata.website = final_url]
        ELSE IF metadata.phone
        THEN [obs EXCEPT !.type_metadata.website = NoUrl]
        ELSE [obs EXCEPT !.type_metadata = NoMetadata]

\* The URLs validate_website_url requests for one entry.
FetchedFor(obs, outcome) ==
    IF ~obs.type_metadata.present \/ obs.type_metadata.website = NoUrl THEN {}
    ELSE {obs.type_metadata.website}
         \cup (IF outcome.valid /\ outcome.final_url.scheme = "http"
               THEN {HttpsOf(outcome.final_url)} ELSE {})

\* run_url_validation: discovered.json afterwards and the URLs requested.
run_url_validation(dir, outcomes) ==
    IF ~dir.discovered.exists \/ dir.discovered.observatories = <<>>
    THEN [temp_dir |-> dir, fetched |-> {}]
    ELSE LET observatories == dir.discovered.observatories
             validated == [k \in 1..Len(observatories) |->
                              ValidateEntry(observatories[k], outcomes[k])]
         IN  [temp_dir |-> [dir EXCEPT !.discovered = DiscoveryFile(validated)],
              fetched |-> UNION { FetchedFor(observatories[k], outcomes[k]) :
                                     k \in 1..Len(observatories) }]

-----------------------------------------------------------------------------
(* run.py: main *)

\* Lines 290-298: what main does with the parsed flags.
Dispatch_discover_by_default(a) ==
    IF a.cleanup THEN "cleanup" ELSE "discover"

Dispatch(a) ==
    IF a.cleanup THEN "cleanup"
    ELSE IF ~a.discover THEN "help"
    ELSE "discover"

\* Line 307: if not remaining
NothingNew_ignored(remaining) == FALSE

NothingNew(remaining) == remaining = <<>>

\* run records the phases main() has completed, in order, the websites
\* requested, whether help was printed, what run_dedupe read, kept and
\* returned, what validate_website_url found for each entry left, and the
\* files as they were when main() started.
RunStart(dir, file) ==
    [phases |-> <<>>, fetched |-> {}, help |-> FALSE,
     dedupe_input |-> <<>>, dedupe_kept |-> {}, remaining |-> <<>>,
     url_outcomes |-> <<>>,
     start_temp_dir |-> dir, start_output_file |-> file]

\* Lines 290-292: --cleanup removes the temp directory and returns.
main_cleanup ==
    /\ main_pc = "start"
    /\ Dispatch(args) = "cleanup"
    /\ temp_dir' = NoTempDir
    /\ main_pc' = "returned"
    /\ UNCHANGED <<args, run, output_file, merge_vars, checkpoint_vars, download_vars, url_vars, find_vars, discover_vars>>

\* Lines 294-296: without --discover, help is printed.
main_help ==
    /\ main_pc = "start"
    /\ Dispatch(args) = "help"
    /\ run' = [run EXCEPT !.help = TRUE]
    /\ main_pc' = "returned"
    /\ UNCHANGED <<args, temp_dir, output_file, merge_vars, checkpoint_vars, download_vars, url_vars, find_vars, discover_vars>>

\* Lines 299-304 with run_discovery: the query returns at most --limit
\* observatories, written to discovered.json.
main_run_discovery(results) ==
    /\ main_pc = "start"
    /\ Dispatch(args) = "discover"
    /\ Len(results) <= args.limit
    /\ temp_dir' = TempDir(DiscoveryFile(results))
    /\ run' = [run EXCEPT !.phases = Append(@, "discovery")]
    /\ main_pc' = "discovered"
    /\ UNCHANGED <<args, output_file, merge_vars, checkpoint_vars, download_vars, url_vars, find_vars, discover_vars>>

\* A Wikidata request fails: requests raises, and main() with it.
main_discovery_raises ==
    /\ main_pc = "start"
    /\ Dispatch(args) = "discover"
    /\ main_pc' = "raised"
    /\ UNCHANGED <<args, temp_dir, run, output_file, merge_vars, checkpoint_vars, download_vars, url_vars, find_vars, discover_vars>>

\* Lines 306-309: run_dedupe, and the return when nothing is left.
main_run_dedupe ==
    /\ main_pc = "discovered"
    /\ LET done == run_dedupe(temp_dir, output_file)
       IN  /\ temp_dir' = done.temp_dir
           /\ run' = [run EXCEPT !.phases = Append(@, "dedupe"),
                                 !.dedupe_input = temp_dir.discovered.observatories,
                                 !.dedupe_kept = done.kept,
                                 !.remaining = done.returned]
           /\ main_pc' = IF NothingNew(done.returned) THEN "returned" ELSE "deduped"
    /\ UNCHANGED <<args, output_file, merge_vars, checkpoint_vars, download_vars, url_vars, find_vars, discover_vars>>

\* Line 312: run_url_validation, then the closing messages.
main_run_url_validation ==
    /\ main_pc = "deduped"
    /\ \E outcomes \in [1..Len(temp_dir.discovered.observatories) -> UrlOutcomes] :
          LET done == run_url_validation(temp_dir, outcomes)
          IN  /\ temp_dir' = done.temp_dir
              /\ run' = [run EXCEPT !.phases = Append(@, "url_validation"),
                                    !.fetched = @ \cup done.fetched,
                                    !.url_outcomes = outcomes]
    /\ main_pc' = "returned"
    /\ UNCHANGED <<args, output_file, merge_vars, checkpoint_vars, download_vars, url_vars, find_vars, discover_vars>>

-----------------------------------------------------------------------------
(* normalize_checkpoint.py: JSON values *)

\* Python's None: a JSON null, and what dict.get gives for a missing key.
None == "None"

\* a or b
Or(a, b) == IF a # None THEN a ELSE b

Slugs == {"s1", "s2"}

\* A dict keyed by slug: each slug has a value, None (null), or no key.
NoKey == "no key"

EmptyDict == [s \in Slugs |-> NoKey]

\* JSON values: a dict keyed by slug, a list (its elements are the
\* checkpoint's items), a string, null, and the absence of a key.
JDict(d) == [t |-> "dict", d |-> d]
JList == [t |-> "list", d |-> EmptyDict]
JStr == [t |-> "str", d |-> EmptyDict]
JNull == [t |-> "null", d |-> EmptyDict]
JMissing == [t |-> "missing", d |-> EmptyDict]

\* A per-observatory element of a results list or of a top-level array: a
\* dict with the keys the code reads, or something that is no dict.
Item(slug, final_url, image_url, url, accepted, image_status, rejection_reason, reason, type_metadata, website) ==
    [kind |-> "dict", slug |-> slug, final_url |-> final_url, image_url |-> image_url,
     url |-> url, accepted |-> accepted, image_status |-> image_status,
     rejection_reason |-> rejection_reason, reason |-> reason,
     type_metadata |-> type_metadata, website |-> website]

NotADict == [Item(None, None, None, None, None, None, None, None, None, None)
                EXCEPT !.kind = "str"]

\* Items with the keys slug, image_url, accepted, image_status.
PlainItems ==
    { Item("s1", None, image_url, None, accepted, image_status, None, None, None, None) :
        image_url \in {None, "u1"},
        accepted \in {None, "True", "False"},
        image_status \in {None, "accepted", "rejected"} }

\* Items with the other keys: final_url, url, the two reasons, a website,
\* a longer status, no slug, a null type_metadata.
OtherItems ==
    { Item("s2", "f2", None, None, "True", None, None, None, "dict", "w2"),
      Item("s2", None, None, None, None, "rejected", "rr2", "r2", "dict", None),
      Item("s2", None, None, "l2", None, None, None, None, None, None),
      Item(None, None, "u1", None, None, "accepted", None, None, None, None),
      Item("s2", None, "u2", None, None, "rejected_blurry", None, "r2", None, None),
      Item("s2", None, None, None, None, None, None, "r2", None, None),
      Item("s1", None, "u1", None, "False", None, None, "r1", None, None),
      Item("s1", None, "u1", None, None, "accepted", None, None, "null", None),
      NotADict }

Items == PlainItems \cup OtherItems

\* A checkpoint: the top-level type; for a dict its batch_num and the values
\* of the keys the code reads; for a list, or a dict whose results is a
\* list, the items.
Data(type, validated, results, websites_found, rejection_notes, items) ==
    [type |-> type, batch_num |-> 1, validated |-> validated, results |-> results,
     websites_found |-> websites_found, rejection_notes |-> rejection_notes,
     items |-> items]

\* The value of batch_num of a dict without the key.
NoBatchNum == 0

\* The batch numbers the dicts carry; Data gives them batch_num 1.
BatchNums == {NoBatchNum, 1, 2, 3}

\* The same dict carrying another batch_num, or none.
CarryingBatchNum(data, batch_num) == [data EXCEPT !.batch_num = batch_num]

\* {"batch_num": 1, "results": [...]}
ResultsData(items) == Data("dict", JMissing, JList, JMissing, JMissing, items)

\* [...]
ArrayData(items) == Data("list", JMissing, JMissing, JMissing, JMissing, items)

\* {"batch_num": 1, "validated": {...}, "websites_found": ..., "rejection_notes": ...}
CanonicalData(validated, websites_found, rejection_notes) ==
    Data("dict", JDict(validated), JMissing, websites_found, rejection_notes, <<>>)

SampleValidated ==
    { EmptyDict, [s \in Slugs |-> IF s = "s1" THEN "u1" ELSE None],
      [s \in Slugs |-> IF s = "s1" THEN NoKey ELSE "u2"] }

SampleNotes == { JMissing, JNull, JDict(EmptyDict), JDict([s \in Slugs |-> IF s = "s2" THEN "r2" ELSE NoKey]) }

\* Checkpoints of none of the three shapes: {"foo": "bar"}, a validated that
\* is no dict, a results that is no list, a string, null.
OtherData ==
    { Data("dict", JMissing, JMissing, JMissing, JMissing, <<>>),
      Data("dict", JList, JMissing, JMissing, JMissing, <<>>),
      Data("dict", JNull, JMissing, JDict(EmptyDict), JMissing, <<>>),
      Data("dict", JStr, JDict(EmptyDict), JMissing, JMissing, <<>>),
      Data("dict", JMissing, JDict(EmptyDict), JMissing, JMissing, <<>>),
      Data("dict", JMissing, JNull, JMissing, JMissing, <<>>),
      Data("str", JMissing, JMissing, JMissing, JMissing, <<>>),
      Data("null", JMissing, JMissing, JMissing, JMissing, <<>>) }

BatchOneCheckpoints(max_items) ==
    OtherData
    \cup { CanonicalData(v, w, r) : v \in SampleValidated, w \in SampleNotes, r \in SampleNotes }
    \cup { ResultsData(items) : items \in SeqsUpTo(Items, max_items) }
    \cup { ArrayData(items) : items \in SeqsUpTo(Items, max_items) }
    \cup { Data("dict", JStr, JList, JMissing, JMissing, <<item>>) : item \in OtherItems }
    \cup { Data("dict", JDict(EmptyDict), JList, JMissing, JMissing, <<item>>) : item \in OtherItems }

\* The checkpoints, the dicts of at most one item with each of the batch
\* numbers.
Checkpoints(max_items) ==
    BatchOneCheckpoints(max_items)
    \cup { CarryingBatchNum(data, batch_num) :
             data \in { d \in BatchOneCheckpoints(1) : d.type = "dict" }, batch_num \in BatchNums }

-----------------------------------------------------------------------------
(* normalize_checkpoint.py: normalize_checkpoint *)

\* What a call gives: the normalized dict, or the exception raised.
Returned(batch_num, validated, websites_found, rejection_notes) ==
    [raised |-> "no", batch_num |-> batch_num, validated |-> validated,
     websites_found |-> websites_found, rejection_notes |-> rejection_notes]

Raised(exception) ==
    [raised |-> exception, batch_num |-> 0, validated |-> JMissing,
     websites_found |-> JMissing, rejection_notes |-> JMissing]

\* Lines 33-38: the dicts being filled, and whether an item raised.
EmptyNormalized ==
    [raised |-> FALSE, validated |-> EmptyDict, websites_found |-> EmptyDict,
     rejection_notes |-> EmptyDict]

\* data.get(key, {})
GetOrEmptyDict(value) == IF value.t = "missing" THEN JDict(EmptyDict) ELSE value

\* Line 41: the canonical shape.
IsCanonical_key_only(data) == data.type = "dict" /\ data.validated.t # "missing"

IsCanonical(data) == data.type = "dict" /\ data.validated.t = "dict"

\* Line 48: the old shape.
IsOldFormat(data) == data.type = "dict" /\ data.results.t = "list"

\* Line 67: the array shape.
IsArrayFormat(data) == data.type = "list"

\* Lines 62-63 and 84-85: the website an item's type_metadata adds.
WithWebsite(websites_found, item) ==
    IF item.type_metadata = "dict" /\ item.website # None
    THEN [websites_found EXCEPT ![item.slug] = item.website]
    ELSE websites_found

\* Lines 50-63: one item of a results list.
ResultsItem(normalized, item) ==
    IF normalized.raised \/ item.kind # "dict" THEN [normalized EXCEPT !.raised = TRUE]
    ELSE IF item.slug = None THEN normalized
    ELSE LET slug == item.slug
             rejected == item.accepted = "False" \/ item.image_status = "rejected"
             final_url == IF rejected THEN None
                          ELSE Or(Or(item.final_url, item.image_url), item.url)
             note == Or(item.rejection_reason, item.reason)
         IN  IF item.type_metadata = "null" THEN [normalized EXCEPT !.raised = TRUE]
             ELSE [raised |-> FALSE,
                   validated |-> [normalized.validated EXCEPT ![slug] = final_url],
                   websites_found |-> WithWebsite(normalized.websites_found, item),
                   rejection_notes |->
                       IF rejected /\ note # None
                       THEN [normalized.rejection_notes EXCEPT ![slug] = note]
                       ELSE normalized.rejection_notes]

\* "rejected" not in str(item.get("image_status", ""))
MentionsRejected(image_status) == image_status \in {"rejected", "rejected_blurry"}

\* Lines 69-85: one item of a top-level array.
ArrayItem(normalized, item) ==
    IF normalized.raised \/ item.kind # "dict" THEN [normalized EXCEPT !.raised = TRUE]
    ELSE IF item.slug = None THEN normalized
    ELSE LET slug == item.slug
             is_accepted ==
                 \/ item.image_status = "accepted"
                 \/ item.accepted = "True"
                 \/ (item.image_url # None /\ ~MentionsRejected(item.image_status))
             final_url == IF is_accepted THEN item.image_url ELSE None
             note == Or(item.rejection_reason, item.reason)
         IN  IF item.type_metadata = "null" THEN [normalized EXCEPT !.raised = TRUE]
             ELSE [raised |-> FALSE,
                   validated |-> [normalized.validated EXCEPT ![slug] = final_url],
                   websites_found |-> WithWebsite(normalized.websites_found, item),
                   rejection_notes |->
                       IF ~is_accepted /\ note # None
                       THEN [normalized.rejection_notes EXCEPT ![slug] = note]
                       ELSE normalized.rejection_notes]

\* The for loops of lines 49 and 68, from item i on.
RECURSIVE ResultsLoop(_, _, _)
ResultsLoop(normalized, items, i) ==
    IF i > Len(items) THEN normalized
    ELSE ResultsLoop(ResultsItem(normalized, items[i]), items, i + 1)

RECURSIVE ArrayLoop(_, _, _)
ArrayLoop(normalized, items, i) ==
    IF i > Len(items) THEN normalized
    ELSE ArrayLoop(ArrayItem(normalized, items[i]), items, i + 1)

\* Lines 64 and 86: return normalized, unless an item raised (item.get on
\* something that is no dict, or .get on a null type_metadata).
ReturnNormalized(normalized, expected_batch_num) ==
    IF normalized.raised THEN Raised("AttributeError")
    ELSE Returned(expected_batch_num, JDict(normalized.validated),
                  JDict(normalized.websites_found), JDict(normalized.rejection_notes))

\* Line 34: the batch_num of the result.
BatchNumOf_carried(data, expected_batch_num) ==
    IF data.batch_num # NoBatchNum THEN data.batch_num ELSE expected_batch_num

BatchNumOf(data, expected_batch_num) == expected_batch_num

normalize_checkpoint(data, expected_batch_num) ==
    LET batch_num == BatchNumOf(data, expected_batch_num)
    IN  IF IsCanonical(data)
        THEN Returned(batch_num, data.validated,
                      GetOrEmptyDict(data.websites_found), GetOrEmptyDict(data.rejection_notes))
        ELSE IF IsOldFormat(data)
        THEN ReturnNormalized(ResultsLoop(EmptyNormalized, data.items, 1), batch_num)
        ELSE IF IsArrayFormat(data)
        THEN ReturnNormalized(ArrayLoop(EmptyNormalized, data.items, 1), batch_num)
        ELSE Raised("ValueError")

NotCalled == [called |-> FALSE, expected_batch_num |-> 0, outcome |-> Raised("no call")]

\* A call on the checkpoint's value.
call_normalize_checkpoint(expected_batch_num) ==
    /\ ~nc_call.called
    /\ nc_call' = [called |-> TRUE, expected_batch_num |-> expected_batch_num,
                   outcome |-> normalize_checkpoint(checkpoint, expected_batch_num)]
    /\ UNCHANGED <<checkpoint, nf>>

-----------------------------------------------------------------------------
(* normalize_checkpoint.py: normalize_file *)

\* A checkpoint file whose text is no JSON, and the file of length zero
\* that open(checkpoint_path, 'w') leaves.
NotJson == Data("not json", JMissing, JMissing, JMissing, JMissing, <<>>)
EmptyFile == Data("empty", JMissing, JMissing, JMissing, JMissing, <<>>)

\* The checkpoint files normalize_file is run on: those of at most one
\* item, and the file that is no JSON.
CheckpointFiles == Checkpoints(1) \cup {NotJson}

\* Line 99: the JSON json.dump(normalized, f) writes.
AsData(normalized) ==
    CarryingBatchNum(
        Data("dict", normalized.validated, JMissing, normalized.websites_found,
             normalized.rejection_notes, <<>>),
        normalized.batch_num)

NoFileCall ==
    [pc |-> "idle", expected_batch_num |-> 0, original |-> EmptyFile, data |-> EmptyFile,
     outcome |-> Raised("no call")]

\* Lines 96-98: an exception of normalize_checkpoint leaves normalize_file
\* before the file is opened for writing.
AfterNormalize_always_open(outcome) == "normalized"

AfterNormalize(outcome) == IF outcome.raised = "no" THEN "normalized" ELSE "raised"

\* Lines 93-94: json.load(f), which raises on a text that is no JSON.
nf_load(expected_batch_num) ==
    /\ nf.pc = "idle"
    /\ nf' = IF checkpoint.type \in {"not json", "empty"}
             THEN [nf EXCEPT !.pc = "raised", !.expected_batch_num = expected_batch_num,
                             !.original = checkpoint,
                             !.outcome = Raised("JSONDecodeError")]
             ELSE [nf EXCEPT !.pc = "loaded", !.expected_batch_num = expected_batch_num,
                             !.original = checkpoint, !.data = checkpoint]
    /\ UNCHANGED <<checkpoint, nc_call, output_file, merge_vars, run_vars, download_vars,
                   url_vars, find_vars, discover_vars>>

\* Line 96
nf_normalize ==
    /\ nf.pc = "loaded"
    /\ LET outcome == normalize_checkpoint(nf.data, nf.expected_batch_num)
       IN  nf' = [nf EXCEPT !.pc = AfterNormalize(outcome), !.outcome = outcome]
    /\ UNCHANGED <<checkpoint, nc_call, output_file, merge_vars, run_vars, download_vars,
                   url_vars, find_vars, discover_vars>>

\* Line 98: open(checkpoint_path, 'w') truncates the file.
nf_open_for_writing ==
    /\ nf.pc = "normalized"
    /\ checkpoint' = EmptyFile
    /\ nf' = [nf EXCEPT !.pc = "opened"]
    /\ UNCHANGED <<nc_call, output_file, merge_vars, run_vars, download_vars,
                   url_vars, find_vars, discover_vars>>

\* Lines 99-101: json.dump and the return.
nf_dump ==
    /\ nf.pc = "opened"
    /\ checkpoint' = AsData(nf.outcome)
    /\ nf' = [nf EXCEPT !.pc = "returned"]
    /\ UNCHANGED <<nc_call, output_file, merge_vars, run_vars, download_vars,
                   url_vars, find_vars, discover_vars>>

-----------------------------------------------------------------------------
(* download.py: rate limit state, download_image, download_observatory_image *)

BATCH_SIZE == 5
BATCH_BREAK_SECONDS == 60
GLOBAL_COOLDOWN_SECONDS == 180
IMAGE_DOWNLOAD_DELAY == 10
\* download_image(url, max_retries=3)
DefaultMaxRetries == 3
\* wait_time = 30 * (attempt + 1)
BackoffSeconds == 30

\* Lines 34-38 and 72-76. Times are kept relative to the clock: last_429_time
\* is whether it was set, global_cooldown_until the seconds still to go.
InitialRateLimitState ==
    [downloads_since_break |-> 0, last_429_time |-> "never", global_cooldown_until |-> 0]

\* What requests.get with raise_for_status gives: content, empty content,
\* HTTPError with status 429, another HTTPError, another RequestException
\* (timeout, connection), any other exception.
Responses == {"ok", "empty", "429", "http_error", "request_exception", "exception"}

\* Lines 46-52: the seconds _check_global_cooldown sleeps.
_check_global_cooldown(state) ==
    IF 0 < state.global_cooldown_until THEN state.global_cooldown_until ELSE 0

\* Lines 55-60: the state once _trigger_global_cooldown has slept its
\* GLOBAL_COOLDOWN_SECONDS.
_trigger_global_cooldown(state) ==
    [state EXCEPT !.last_429_time = "set",
                  !.global_cooldown_until = GLOBAL_COOLDOWN_SECONDS - GLOBAL_COOLDOWN_SECONDS]

\* Lines 63-69: the state afterwards, and whether the pause was taken.
_check_batch_break_above_size(state) ==
    LET n == state.downloads_since_break + 1
    IN  IF n > BATCH_SIZE
        THEN [state |-> [state EXCEPT !.downloads_since_break = 0], paused |-> TRUE]
        ELSE [state |-> [state EXCEPT !.downloads_since_break = n], paused |-> FALSE]

_check_batch_break(state) ==
    LET n == state.downloads_since_break + 1
    IN  IF n >= BATCH_SIZE
        THEN [state |-> [state EXCEPT !.downloads_since_break = 0], paused |-> TRUE]
        ELSE [state |-> [state EXCEPT !.downloads_since_break = n], paused |-> FALSE]

\* Line 109: the 429 that triggers the global cooldown.
IsFirstAttempt_or_second(attempt) == attempt <= 1

IsFirstAttempt(attempt) == attempt = 0

\* Lines 97-132: one iteration of the retry loop on one response: what
\* it does about it, the seconds it sleeps, and how it leaves the iteration.
HandleResponse_retry_all(response, attempt, max_retries) ==
    IF response \in {"ok", "empty"}
    THEN [handling |-> "content", slept |-> 0, next |-> "return"]
    ELSE IF IsFirstAttempt(attempt)
    THEN [handling |-> "cooldown", slept |-> GLOBAL_COOLDOWN_SECONDS, next |-> "continue"]
    ELSE IF attempt < max_retries
    THEN [handling |-> "backoff", slept |-> BackoffSeconds * (attempt + 1), next |-> "continue"]
    ELSE [handling |-> "gave_up", slept |-> 0, next |-> "return"]

HandleResponse(response, attempt, max_retries) ==
    IF response \in {"ok", "empty"}
    THEN [handling |-> "content", slept |-> 0, next |-> "return"]
    ELSE IF response = "429"
    THEN IF IsFirstAttempt(attempt)
         THEN [handling |-> "cooldown", slept |-> GLOBAL_COOLDOWN_SECONDS, next |-> "continue"]
         ELSE IF attempt < max_retries
         THEN [handling |-> "backoff", slept |-> BackoffSeconds * (attempt + 1), next |-> "continue"]
         ELSE [handling |-> "gave_up", slept |-> 0, next |-> "return"]
    ELSE [handling |-> "failed", slept |-> 0, next |-> "return"]

\* Line 96: whether range(max_retries + 1) holds this attempt.
InRange(attempt, max_retries) == attempt < max_retries + 1

\* Lines 104, 121-134: what download_image returns.
ReturnValue(response) ==
    IF response = "ok" THEN "bytes" ELSE IF response = "empty" THEN "empty bytes" ELSE "None"

\* Lines 344-355: whether download_observatory_image reaches the save, given
\* what download_image returned and whether compress_image returned data.
ReachesSave_uncompressed(via, returned, compress_ok) ==
    via = "download_observatory_image" /\ returned = "bytes"

ReachesSave(via, returned, compress_ok) ==
    /\ via = "download_observatory_image"
    /\ returned = "bytes"
    /\ compress_ok

\* No download call is running.
NoDownload == [active |-> FALSE, via |-> "none", max_retries |-> 0, attempt |-> 0]

NoEvent ==
    [response |-> "none", attempt |-> 0, max_retries |-> 0, handling |-> "none",
     slept |-> 0, cooldown_slept |-> 0, prior_429s |-> 0, ended |-> FALSE,
     via |-> "none", returned |-> "none", compressed |-> FALSE, saved |-> FALSE,
     delay_slept |-> 0,
     paused |-> FALSE, downloads_before |-> 0]

\* Nothing downloaded yet.
EmptyLog ==
    [calls |-> 0, seen_429 |-> 0, call_requests |-> 0, call_429s |-> 0,
     requests_since_pause |-> 0, saves_since_reset |-> 0, pauses_since_reset |-> 0,
     last |-> NoEvent]

\* Line 94 with line 96: a call begins, by download_image itself or from
\* download_observatory_image (line 344), after _check_global_cooldown.
StartDownload(via, max_retries) ==
    /\ ~dl.active
    /\ dl_log.calls < MaxCalls
    /\ dl' = [active |-> TRUE, via |-> via, max_retries |-> max_retries, attempt |-> 0]
    /\ _rate_limit_state' =
          [_rate_limit_state EXCEPT !.global_cooldown_until =
              @ - _check_global_cooldown(_rate_limit_state)]
    /\ dl_log' = [dl_log EXCEPT !.calls = @ + 1, !.call_requests = 0, !.call_429s = 0,
                                !.last = [NoEvent EXCEPT
                                    !.cooldown_slept = _check_global_cooldown(_rate_limit_state)]]
    /\ UNCHANGED <<commons, output_file, merge_vars, run_vars, checkpoint_vars, url_vars, find_vars, discover_vars>>

call_download_image(max_retries) == StartDownload("download_image", max_retries)

call_download_observatory_image == StartDownload("download_observatory_image", DefaultMaxRetries)

\* Lines 96-134 and 345-365: one request of the running call and all that
\* follows it up to the next request or to the end of the call.
http_request(response, compress_ok) ==
    /\ dl.active
    /\ InRange(dl.attempt, dl.max_retries)
    /\ LET h == HandleResponse(response, dl.attempt, dl.max_retries)
           ended == h.next = "return" \/ ~InRange(dl.attempt + 1, dl.max_retries)
           returned == IF h.next = "return" THEN ReturnValue(response) ELSE "None"
           saved == ended /\ ReachesSave(dl.via, returned, compress_ok)
           cooled == IF h.handling = "cooldown"
                     THEN _trigger_global_cooldown(_rate_limit_state)
                     ELSE _rate_limit_state
           break == _check_batch_break(cooled)
       IN  /\ dl' = IF ended THEN NoDownload ELSE [dl EXCEPT !.attempt = @ + 1]
           /\ _rate_limit_state' = IF saved THEN break.state ELSE cooled
           /\ dl_log' =
                 [dl_log EXCEPT
                    !.seen_429 = IF response = "429" THEN @ + 1 ELSE @,
                    !.call_requests = @ + 1,
                    !.call_429s = IF response = "429" THEN @ + 1 ELSE @,
                    !.requests_since_pause = IF saved /\ break.paused THEN 0 ELSE @ + 1,
                    !.saves_since_reset = IF saved THEN @ + 1 ELSE @,
                    !.pauses_since_reset = IF saved /\ break.paused THEN @ + 1 ELSE @,
                    !.last = [response |-> response, attempt |-> dl.attempt,
                              max_retries |-> dl.max_retries, handling |-> h.handling,
                              slept |-> h.slept, cooldown_slept |-> 0,
                              prior_429s |-> dl_log.seen_429, ended |-> ended,
                              via |-> dl.via,
                              returned |-> IF ~ended THEN "none"
                                           ELSE IF dl.via = "download_image" THEN returned
                                           ELSE IF saved THEN "path" ELSE "None",
                              compressed |-> returned = "bytes" /\ compress_ok,
                              saved |-> saved,
                              delay_slept |-> IF saved THEN IMAGE_DOWNLOAD_DELAY ELSE 0,
                              paused |-> saved /\ break.paused,
                              downloads_before |-> _rate_limit_state.downloads_since_break]]
    /\ UNCHANGED <<commons, output_file, merge_vars, run_vars, checkpoint_vars, url_vars, find_vars, discover_vars>>

\* Lines 72-76, between calls.
reset_rate_limit_state ==
    /\ ~dl.active
    /\ dl_log.calls > 0
    /\ dl_log.last.response # "reset"
    /\ _rate_limit_state' = InitialRateLimitState
    /\ dl_log' = [dl_log EXCEPT !.seen_429 = 0, !.saves_since_reset = 0,
                                !.pauses_since_reset = 0,
                                !.last = [NoEvent EXCEPT !.response = "reset"]]
    /\ UNCHANGED <<dl, commons, output_file, merge_vars, run_vars, checkpoint_vars, url_vars, find_vars, discover_vars>>

-----------------------------------------------------------------------------
(* download.py: search_wikimedia_commons *)

COMMONS_DELAY == 3

\* Line 195: the number of enhanced search terms.
EnhancedTerms == 4

\* What a Commons API request gives: an exception (of requests.get,
\* raise_for_status or response.json), a response without query.pages, or
\* a response with pages.
CommonsOutcomes == {"exception", "no pages", "pages"}

\* The limits given: download_fallback_images gives max_images * 2, which
\* is 10 by default.
Limits == {1, 2, 10}

\* commons: the term the loop stands at, the number of results so far, the
\* limit; the requests made, the outcome of the latest and the seconds
\* slept after it; and the requests issued with no sleep since the request
\* before them.
NoSearch ==
    [pc |-> "idle", term |-> 0, results |-> 0, limit |-> 0, requests |-> 0,
     outcome |-> "none", slept |-> 0, unpaced |-> 0, returned |-> 0]

\* Lines 195-203
call_search_wikimedia_commons(limit) ==
    /\ commons.pc = "idle"
    /\ commons' = [NoSearch EXCEPT !.pc = "loop", !.term = 1, !.limit = limit]
    /\ UNCHANGED <<_rate_limit_state, dl, dl_log, output_file, merge_vars, run_vars,
                   checkpoint_vars, url_vars, find_vars, discover_vars>>

\* Lines 229-231, 233-234 and 274: the seconds slept after a request,
\* before the loop goes to the next term.
SleepAfter(outcome) == IF outcome = "pages" THEN COMMONS_DELAY ELSE 0

\* Lines 205-274: one turn of the loop: the request for the term, the
\* pages of the response that pass the filters added to the results, and
\* the sleep.
commons_request(outcome, found) ==
    /\ commons.pc = "loop"
    /\ commons.term <= EnhancedTerms
    /\ commons.results < commons.limit
    /\ outcome # "pages" => found = 0
    /\ commons' =
          [commons EXCEPT
             !.term = @ + 1,
             !.results = @ + found,
             !.requests = @ + 1,
             !.outcome = outcome,
             !.slept = SleepAfter(outcome),
             !.unpaced = IF commons.requests > 0 /\ commons.slept = 0 THEN @ + 1 ELSE @]
    /\ UNCHANGED <<_rate_limit_state, dl, dl_log, output_file, merge_vars, run_vars,
                   checkpoint_vars, url_vars, find_vars, discover_vars>>

\* Lines 206-207 and 276-278: the loop is left and results[:limit] returned.
commons_return ==
    /\ commons.pc = "loop"
    /\ commons.term > EnhancedTerms \/ commons.results >= commons.limit
    /\ commons' = [commons EXCEPT
                     !.pc = "returned",
                     !.returned = IF commons.results < commons.limit
                                  THEN commons.results ELSE commons.limit]
    /\ UNCHANGED <<_rate_limit_state, dl, dl_log, output_file, merge_vars, run_vars,
                   checkpoint_vars, url_vars, find_vars, discover_vars>>

-----------------------------------------------------------------------------
(* url_validator.py: pages and validate_website_url *)

MIN_CONTENT_LENGTH == 1000
\* content_to_check = content[:5000]
CheckedChars == 5000

\* The lowercased text of a page is pieces joined by single spaces. The
\* pieces: 995 and 4990 letters "a"; "obs"; "404"; "14045"; "not found";
\* "coming soon"; "<title>home</title>"; "<title>not found</title>".
Tokens ==
    {"pad 995", "pad 4990", "obs", "404", "14045", "not found", "coming soon",
     "title home", "title not found"}

TokenLen(t) ==
    CASE t = "pad 995" -> 995
      [] t = "pad 4990" -> 4990
      [] t = "obs" -> 3
      [] t = "404" -> 3
      [] t = "14045" -> 5
      [] t = "not found" -> 9
      [] t = "coming soon" -> 11
      [] t = "title home" -> 19
      [] t = "title not found" -> 24

\* Lines 20-58: where SOFT_404_REGEX matches inside a piece, as the
\* characters <<first, past the last>>, or <<>> when it does not. \b404\b
\* matches "404" and not "14045"; the title's text lies after "<title>".
Soft404Match(t) ==
    CASE t = "404" -> <<0, 3>>
      [] t = "not found" -> <<0, 9>>
      [] t = "coming soon" -> <<0, 11>>
      [] t = "title not found" -> <<7, 16>>
      [] OTHER -> <<>>

\* Where the substring '404' lies inside a piece.
Substring404(t) ==
    CASE t = "404" -> <<0, 3>>
      [] t = "14045" -> <<1, 4>>
      [] OTHER -> <<>>

\* The index in the text of the first character of piece i.
RECURSIVE Offset(_, _)
Offset(tokens, i) ==
    IF i = 1 THEN 0 ELSE Offset(tokens, i - 1) + TokenLen(tokens[i - 1]) + 1

\* len(text)
TextLen(tokens) ==
    IF tokens = <<>> THEN 0 ELSE Offset(tokens, Len(tokens)) + TokenLen(tokens[Len(tokens)])

\* SOFT_404_REGEX.findall(content[:limit]): the pieces of content[:limit] in
\* which a match lies whole.
FindAll(tokens, limit) ==
    { i \in 1..Len(tokens) :
        /\ Soft404Match(tokens[i]) # <<>>
        /\ Offset(tokens, i) + Soft404Match(tokens[i])[2] <= limit }

\* '404' in content[:limit]
Has404(tokens, limit) ==
    \E i \in 1..Len(tokens) :
        /\ Substring404(tokens[i]) # <<>>
        /\ Offset(tokens, i) + Substring404(tokens[i])[2] <= limit

\* Line 166: the first <title>...</title> of the content: its text matches
\* SOFT_404_REGEX, or not, or there is no title.
TitleOf(tokens) ==
    LET titles == { i \in 1..Len(tokens) : tokens[i] \in {"title home", "title not found"} }
    IN  IF titles = {} THEN "no title"
        ELSE LET first == CHOOSE i \in titles : \A j \in titles : i <= j
             IN  IF Soft404Match(tokens[first]) # <<>> THEN "error" ELSE "clean"

\* What requests.get gives: a response, or an exception of requests.
NetworkFailures == {"Timeout", "SSLError", "ConnectionError", "RequestException"}

StatusCodes == {200, 301, 399, 400, 404}

\* A response: its status, the pieces of its body, and whether decoding
\* response.text raises.
Page(status_code, tokens, text_raises) ==
    [status_code |-> status_code, tokens |-> tokens, text_raises |-> text_raises]

NoPage == Page(0, <<>>, FALSE)

\* The url argument: empty or None, without a scheme, with one.
UrlArgs == {"", "obs.example", "http://obs.example"}

\* Lines 97-104: the result dict; status_code 0 and final_url "" are None.
Result(valid, status_code, reason, final_url, is_soft_404, content_length) ==
    [valid |-> valid, status_code |-> status_code, reason |-> reason,
     final_url |-> final_url, is_soft_404 |-> is_soft_404,
     content_length |-> content_length]

\* Lines 111-112.
WithScheme(url) == IF url = "obs.example" THEN "https://obs.example" ELSE url

\* Line 160: a match in content_to_check makes the page a soft 404.
EnoughMatches_two_only(matches, tokens) == Cardinality(matches) >= 2

EnoughMatches_one_suffices(matches, tokens) == Cardinality(matches) >= 1

EnoughMatches(matches, tokens) ==
    Cardinality(matches) >= 2 \/ Has404(tokens, CheckedChars)

\* Line 128.
IsHttpError_above_400(status_code) == status_code > 400

IsHttpError(status_code) == status_code >= 400

\* Lines 123-177: the result for a response.
ValidateResponse(url, page) ==
    LET content_length == TextLen(page.tokens)
        content == IF page.text_raises THEN <<>> ELSE page.tokens
        final_url == WithScheme(url)
        matches == FindAll(content, CheckedChars)
    IN  IF IsHttpError(page.status_code)
        THEN Result(FALSE, page.status_code, "HTTP", final_url, FALSE, content_length)
        ELSE IF page.status_code \in {301, 302, 303, 307, 308}
        THEN Result(FALSE, page.status_code, "Redirect", final_url, FALSE, content_length)
        ELSE IF content_length < MIN_CONTENT_LENGTH /\ FindAll(content, TextLen(content)) # {}
        THEN Result(FALSE, page.status_code, "Soft 404 detected (short page)",
                    final_url, TRUE, content_length)
        ELSE IF matches # {} /\ EnoughMatches(matches, content)
        THEN Result(FALSE, page.status_code, "Soft 404 detected (found)",
                    final_url, TRUE, content_length)
        ELSE IF TitleOf(content) = "error"
        THEN Result(FALSE, page.status_code, "Error in page title",
                    final_url, TRUE, content_length)
        ELSE Result(TRUE, page.status_code, "Valid", final_url, FALSE, content_length)

\* Lines 179-190: the reason given for an exception of requests.
FailureReason(outcome) ==
    CASE outcome = "Timeout" -> "Request timeout"
      [] outcome = "SSLError" -> "SSL certificate error"
      [] outcome = "ConnectionError" -> "Connection failed"
      [] outcome = "RequestException" -> "Request error"

validate_website_url(url, outcome, page) ==
    IF url = "" THEN Result(FALSE, 0, "No URL provided", "", FALSE, 0)
    ELSE IF outcome \in NetworkFailures
    THEN Result(FALSE, 0, FailureReason(outcome), "", FALSE, 0)
    ELSE ValidateResponse(url, page)

\* A URL with what the network gives for it.
Website(url, outcome, page) == [url |-> url, outcome |-> outcome, page |-> page]

Websites(max_tokens) ==
    { Website(url, outcome, NoPage) : url \in UrlArgs, outcome \in NetworkFailures }
    \cup { Website(url, "response", Page(status_code, tokens, text_raises)) :
             url \in UrlArgs, status_code \in StatusCodes,
             tokens \in SeqsUpTo(Tokens, max_tokens), text_raises \in BOOLEAN }

NotValidated == Result(FALSE, 0, "not called", "", FALSE, 0)

call_validate_website_url ==
    /\ validation = NotValidated
    /\ validation' = validate_website_url(url_target.url, url_target.outcome, url_target.page)
    /\ UNCHANGED <<url_target, output_file, merge_vars, run_vars, checkpoint_vars, download_vars,
                   find_vars, discover_vars>>

-----------------------------------------------------------------------------
(* url_validator.py: search_observatory_website, find_best_website_url *)

\* A search result as _score_search_result and search_observatory_website
\* read it: its url ("" when the key is missing or empty), the domain of
\* the url, and what the scoring tests find in url, title and snippet.
SearchResult(url, domain, domain_type, reference_site, name_in_domain, title, official, keywords) ==
    [url |-> url, domain |-> domain, domain_type |-> domain_type,
     reference_site |-> reference_site, name_in_domain |-> name_in_domain,
     title |-> title, official |-> official, keywords |-> keywords]

\* Results of a search for "Keck Observatory".
KeckEdu == SearchResult("http://keck.edu/", "keck.edu", "edu", FALSE, TRUE, "name", FALSE, 0)
KeckEduVisit == SearchResult("http://keck.edu/visit", "keck.edu", "edu", FALSE, TRUE, "none", TRUE, 0)
ObsOrg == SearchResult("https://obs.org/", "obs.org", "org", FALSE, FALSE, "word", TRUE, 0)
Obs2Org == SearchResult("https://obs2.org/", "obs2.org", "org", FALSE, FALSE, "word", TRUE, 0)
Wikipedia == SearchResult("https://en.wikipedia.org/wiki/Keck", "en.wikipedia.org", "org", TRUE, FALSE, "name", FALSE, 0)
StarsCom == SearchResult("http://stars.com/", "stars.com", "other", FALSE, FALSE, "none", FALSE, 1)
UniAcUk == SearchResult("https://uni.ac.uk/keck", "uni.ac.uk", "ac", FALSE, FALSE, "none", FALSE, 0)
NasaGov == SearchResult("https://nasa.gov/", "nasa.gov", "gov", FALSE, FALSE, "none", TRUE, 0)
BlogCom == SearchResult("http://blog.com/", "blog.com", "other", FALSE, FALSE, "none", FALSE, 0)
NoUrlResult == SearchResult("", "", "other", FALSE, FALSE, "name", TRUE, 2)

\* Lines 267-332: the score, in tenths.
_score_search_result(result) ==
    (CASE result.domain_type \in {"edu", "gov"} -> 30
       [] result.domain_type = "org" -> 20
       [] result.domain_type = "ac" -> 25
       [] OTHER -> 0)
    - (IF result.reference_site THEN 20 ELSE 0)
    + (IF result.name_in_domain THEN 15 ELSE 0)
    + (CASE result.title = "name" -> 10
         [] result.title = "word" -> 5
         [] OTHER -> 0)
    + (IF result.official THEN 5 ELSE 0)
    + 3 * result.keywords

\* What search_func does with one query: raises, or returns results (none
\* at all for None or an empty list).
QueryAnswer(raises, results) == [raises |-> raises, results |-> results]

QueryAnswers ==
    { QueryAnswer(TRUE, <<>>), QueryAnswer(FALSE, <<>>),
      QueryAnswer(FALSE, <<StarsCom, KeckEdu, NoUrlResult>>),
      QueryAnswer(FALSE, <<ObsOrg, Obs2Org, KeckEduVisit>>),
      QueryAnswer(FALSE, <<Wikipedia, UniAcUk, NasaGov>>),
      QueryAnswer(FALSE, <<BlogCom, Obs2Org, ObsOrg>>) }

\* Lines 234-257: the candidates with the results of one answer appended,
\* a result without url or with a domain already seen being skipped.
RECURSIVE AppendResults(_, _, _)
AppendResults(candidates, results, i) ==
    IF i > Len(results) THEN candidates
    ELSE LET result == results[i]
             seen_domains == { candidates[k].domain : k \in 1..Len(candidates) }
         IN  IF result.url = "" \/ result.domain \in seen_domains
             THEN AppendResults(candidates, results, i + 1)
             ELSE AppendResults(Append(candidates, result), results, i + 1)

\* Lines 218-223: the number of queries.
QueryCount(country) == IF country THEN 3 ELSE 2

\* Lines 228-260: the loop over the queries, from query q on.
RECURSIVE QueryLoop(_, _, _, _)
QueryLoop(candidates, answers, q, count) ==
    IF q > count THEN candidates
    ELSE QueryLoop(IF answers[q].raises THEN candidates
                   ELSE AppendResults(candidates, answers[q].results, 1),
                   answers, q + 1, count)

\* Line 263: candidates.sort(key=score, reverse=True), which keeps
\* candidates of equal score in the order they were found.
RECURSIVE InsertByScore(_, _)
InsertByScore(sorted, x) ==
    IF sorted = <<>> THEN <<x>>
    ELSE IF _score_search_result(Head(sorted)) >= _score_search_result(x)
    THEN <<Head(sorted)>> \o InsertByScore(Tail(sorted), x)
    ELSE <<x>> \o sorted

SortByScore_unsorted(candidates) == candidates

RECURSIVE SortByScore(_)
SortByScore(candidates) ==
    IF candidates = <<>> THEN <<>>
    ELSE InsertByScore(SortByScore(SubSeq(candidates, 1, Len(candidates) - 1)),
                       candidates[Len(candidates)])

\* Line 264: candidates[:5]
TopCandidates == 5

\* Lines 193-264.
search_observatory_website(country, search_func, answers) ==
    IF ~search_func THEN <<>>
    ELSE LET sorted == SortByScore(QueryLoop(<<>>, answers, 1, QueryCount(country)))
         IN  SubSeq(sorted, 1, IF Len(sorted) < TopCandidates THEN Len(sorted) ELSE TopCandidates)

\* The Wikidata URL of the observatory, when it has one.
WikidataUrl == "http://obs.example"

CandidateUrls ==
    { KeckEdu.url, ObsOrg.url, Obs2Org.url, Wikipedia.url, StarsCom.url, UniAcUk.url,
      NasaGov.url, BlogCom.url }

\* What the network gives for a URL: a page that validates for the URLs of
\* valid_urls; for the others a 404, and a timeout for the Wikidata URL.
Fetch(url, valid_urls) ==
    IF url \in valid_urls
    THEN validate_website_url(url, "response", Page(200, <<"title home", "pad 995", "obs">>, FALSE))
    ELSE IF url = WikidataUrl THEN validate_website_url(url, "Timeout", NoPage)
    ELSE validate_website_url(url, "response", Page(404, <<"not found">>, FALSE))

\* url.replace('http://', 'https://', 1)
HttpsUrl(url) ==
    CASE url = "http://obs.example" -> "https://obs.example"
      [] url = "http://keck.edu/" -> "https://keck.edu/"
      [] url = "http://stars.com/" -> "https://stars.com/"
      [] url = "http://blog.com/" -> "https://blog.com/"
      [] OTHER -> url

\* Lines 411-445: the HEAD request of the https URL succeeds or not.
_ensure_https(url, head_ok) == IF head_ok THEN HttpsUrl(url) ELSE url

\* Lines 375-384 and 396-405: the url returned for a valid URL.
ReturnedUrl(url, checked, prefer_https, head_ok) ==
    LET final == IF checked.final_url # "" THEN checked.final_url ELSE url
    IN  IF prefer_https THEN _ensure_https(final, head_ok) ELSE final

\* Lines 393-405: the loop over the candidates from candidate i on: the
\* URLs validated, and the first candidate that validates (0 when none).
RECURSIVE CandidateLoop(_, _, _, _)
CandidateLoop(candidates, valid_urls, i, validated) ==
    IF i > Len(candidates) THEN [validated |-> validated, found |-> 0]
    ELSE IF Fetch(candidates[i].url, valid_urls).valid
    THEN [validated |-> Append(validated, candidates[i].url), found |-> i]
    ELSE CandidateLoop(candidates, valid_urls, i + 1, Append(validated, candidates[i].url))

\* Lines 372 and 390: the search is made unless the Wikidata URL validated.
SearchNeeded_always(wikidata_valid) == TRUE

SearchNeeded(wikidata_valid) == ~wikidata_valid

FindArgs ==
    [wikidata_url : {"", WikidataUrl}, country : BOOLEAN, search_func : BOOLEAN,
     prefer_https : BOOLEAN, head_ok : BOOLEAN,
     answers : [1..3 -> QueryAnswers],
     valid_urls : {{}, {WikidataUrl}, {WikidataUrl, KeckEdu.url}}
                  \cup { {u} : u \in CandidateUrls }
                  \cup { {ObsOrg.url, Obs2Org.url}, {BlogCom.url, StarsCom.url} }]

NoFindCall ==
    [called |-> FALSE, url |-> "", source |-> "", validation |-> NotValidated,
     searched |-> 0, candidates |-> <<>>, validated |-> <<>>]

\* Lines 335-408; url "" and source "" are None.
find_best_website_url(a) ==
    LET first == Fetch(a.wikidata_url, a.valid_urls)
        wikidata_valid == a.wikidata_url # "" /\ first.valid
        tried == IF a.wikidata_url # "" THEN <<a.wikidata_url>> ELSE <<>>
        search == SearchNeeded(wikidata_valid) /\ a.search_func
        candidates == IF search
                      THEN search_observatory_website(a.country, a.search_func, a.answers)
                      ELSE <<>>
        loop == CandidateLoop(candidates, a.valid_urls, 1, tried)
    IN  IF wikidata_valid /\ ~search
        THEN [called |-> TRUE,
              url |-> ReturnedUrl(a.wikidata_url, first, a.prefer_https, a.head_ok),
              source |-> "wikidata", validation |-> first,
              searched |-> 0, candidates |-> <<>>, validated |-> tried]
        ELSE IF loop.found > 0
        THEN [called |-> TRUE,
              url |-> ReturnedUrl(candidates[loop.found].url,
                                  Fetch(candidates[loop.found].url, a.valid_urls),
                                  a.prefer_https, a.head_ok),
              source |-> "search",
              validation |-> Fetch(candidates[loop.found].url, a.valid_urls),
              searched |-> IF search THEN QueryCount(a.country) ELSE 0,
              candidates |-> candidates, validated |-> loop.validated]
        ELSE [called |-> TRUE, url |-> "", source |-> "",
              validation |-> IF a.wikidata_url # "" THEN first ELSE NotValidated,
              searched |-> IF search THEN QueryCount(a.country) ELSE 0,
              candidates |-> candidates, validated |-> loop.validated]

call_find_best_website_url ==
    /\ ~find_call.called
    /\ find_call' = find_best_website_url(find_args)
    /\ UNCHANGED <<find_args, output_file, merge_vars, run_vars, checkpoint_vars,
                   download_vars, url_vars, discover_vars>>

-----------------------------------------------------------------------------
(* discover.py: normalize_elevation *)

\* Elevations are in ten-thousandths of a metre, like the coordinates.
Metres(n) == n * 10000

\* FEET_TO_METERS = 0.3048, for an elevation in ten-thousandths.
FEET_TO_METERS == 3048
MIN_VALID_ELEVATION == -500
MAX_VALID_ELEVATION == 9000
FEET_THRESHOLD == 9000

\* An elevation or None.
NoElevation == [none |-> TRUE, value |-> 0]

Elevation(value) == [none |-> FALSE, value |-> value]

\* MIN_VALID_ELEVATION <= x <= MAX_VALID_ELEVATION
InValidRange_exclusive(x) ==
    Metres(MIN_VALID_ELEVATION) < x /\ x < Metres(MAX_VALID_ELEVATION)

InValidRange(x) ==
    Metres(MIN_VALID_ELEVATION) <= x /\ x <= Metres(MAX_VALID_ELEVATION)

\* raw_elevation * FEET_TO_METERS: the whole metres and the rest of raw
\* multiplied apart, which keeps the numbers small. The product is exact
\* for a raw elevation of whole metres.
ToMetres(raw) ==
    (raw \div 10000) * FEET_TO_METERS + ((raw % 10000) * FEET_TO_METERS) \div 10000

\* abs(x)
Abs_identity(x) == x

Abs(x) == IF x < 0 THEN -x ELSE x

\* Lines 26-61: the elevation returned and the note; the note
\* invalid_value_<raw> carries the raw value.
normalize_elevation(raw) ==
    IF raw.none THEN [elevation |-> NoElevation, note |-> "no_elevation", raw |-> raw]
    ELSE IF InValidRange(raw.value)
    THEN [elevation |-> raw, note |-> "meters", raw |-> NoElevation]
    ELSE IF raw.value > Metres(FEET_THRESHOLD) /\ InValidRange(ToMetres(raw.value))
    THEN [elevation |-> Elevation(round(ToMetres(raw.value), 1)),
          note |-> "converted_from_feet", raw |-> NoElevation]
    ELSE IF raw.value < Metres(MIN_VALID_ELEVATION) /\ InValidRange(Abs(raw.value))
    THEN [elevation |-> Elevation(Abs(raw.value)), note |-> "corrected_sign", raw |-> NoElevation]
    ELSE [elevation |-> NoElevation, note |-> "invalid_value", raw |-> raw]

\* Lines 135-140, Observatory.is_elevation_valid, of the elevation the
\* observatory was built with (line 284).
is_elevation_valid(e) == e.none \/ InValidRange(e.value)

\* Half a metre, in ten-thousandths.
HalfMetres(n) == n * 5000

\* Raw elevations around the limits of the tests, in whole and half metres
\* or feet, and None.
RawElevations ==
    {NoElevation}
    \cup { Elevation(Metres(n)) :
             n \in {-29528, -9001, -9000, -8999, -501, -500, -499, 0, 2743}
                   \cup 8990..9060 \cup 29500..29540 }
    \cup { Elevation(HalfMetres(n)) :
             n \in {-18001, -17999, -1001, -999, 17999, 18001, 59055, 59057} }

NotNormalized == [elevation |-> NoElevation, note |-> "not called", raw |-> NoElevation]

call_normalize_elevation ==
    /\ elevation = NotNormalized
    /\ elevation' = normalize_elevation(raw_elevation)
    /\ UNCHANGED <<raw_elevation, wd_rows, built, output_file, merge_vars, run_vars, checkpoint_vars,
                   download_vars, url_vars, find_vars>>

-----------------------------------------------------------------------------
(* discover.py: Observatory.slug *)

\* "http://www.wikidata.org/entity/"
EntityPrefix == <<104, 116, 116, 112, 58, 47, 47, 119, 119, 119, 46, 119, 105, 107, 105, 100, 97, 116, 97, 46, 111, 114, 103, 47, 101, 110, 116, 105, 116, 121, 47>>

\* The URI of the item Q<digits>.
EntityUri(digits) == EntityPrefix \o <<81>> \o digits

\* The ?observatory values of the rows: the items Q1, Q2 and Q12, and a row
\* without the value.
Uris == { <<>>, EntityUri(<<49>>), EntityUri(<<50>>), EntityUri(<<49, 50>>) }

\* A name longer than the 50 characters a slug keeps of it.
LongName == [i \in 1..52 |-> 97]

\* The labels of the rows: "Ab", "a-b", "A  b", "A_b!", "-Ab-" and the long
\* name.
Labels == { NameAb, NameA_b, NameA__b, <<65, 95, 98, 33>>, <<45, 65, 98, 45>>, LongName }

\* A row of the result: the URI, the label and the country label.
Rows == [uri : Uris, label : Labels, country : {"Chile", "Unknown"}]

\* Line 271: uri.split('/')[-1]
RECURSIVE LastSegment(_)
LastSegment(uri) ==
    IF uri = <<>> \/ uri[Len(uri)] = 47 THEN <<>>
    ELSE Append(LastSegment(SubSeq(uri, 1, Len(uri) - 1)), uri[Len(uri)])

\* Line 127: re.sub(r'[^a-z0-9\s-]', '', slug)
KeepSlugChars(s) ==
    SelectSeq(s, LAMBDA c : (c >= 97 /\ c <= 122) \/ (c >= 48 /\ c <= 57) \/ IsSpace(c) \/ c = 45)

\* The class [\s_] of line 128.
IsSpaceOrUnderscore(c) == IsSpace(c) \/ c = 95

\* Line 128: re.sub(r'[\s_]+', '-', slug): every maximal run of the
\* class becomes one hyphen.
RECURSIVE SpacesToHyphen(_)
SpacesToHyphen(s) ==
    IF s = <<>> THEN <<>>
    ELSE IF IsSpaceOrUnderscore(s[1])
         THEN IF Len(s) > 1 /\ IsSpaceOrUnderscore(s[2])
              THEN SpacesToHyphen(Tail(s))
              ELSE <<45>> \o SpacesToHyphen(Tail(s))
         ELSE <<s[1]>> \o SpacesToHyphen(Tail(s))

\* Line 129: re.sub(r'-+', '-', slug)
RECURSIVE CollapseHyphens(_)
CollapseHyphens(s) ==
    IF s = <<>> THEN <<>>
    ELSE IF s[1] = 45 /\ Len(s) > 1 /\ s[2] = 45
         THEN CollapseHyphens(Tail(s))
         ELSE <<s[1]>> \o CollapseHyphens(Tail(s))

\* Line 130: slug.strip('-')
RECURSIVE StripHyphens(_)
StripHyphens(s) ==
    IF s # <<>> /\ s[1] = 45 THEN StripHyphens(Tail(s))
    ELSE IF s # <<>> /\ s[Len(s)] = 45 THEN StripHyphens(SubSeq(s, 1, Len(s) - 1))
    ELSE s

\* The characters of the name a slug keeps at most.
SlugNameLength == 50

\* Line 130: s[:n]
Take(s, n) == SubSeq(s, 1, IF Len(s) < n THEN Len(s) ELSE n)

\* Lines 126-130: the part of the slug made from the name.
SlugOfName(name) ==
    Take(StripHyphens(CollapseHyphens(SpacesToHyphen(KeepSlugChars(Lower(name))))),
         SlugNameLength)

\* Lines 117-133, Observatory.slug, without the suffix of lines 132-133.
slug_name_only(obs) == SlugOfName(obs.name)

\* Lines 117-133, Observatory.slug.
slug(obs) ==
    LET wikidata_suffix == IF obs.wikidata_id # <<>> THEN Lower(obs.wikidata_id) ELSE <<>>
    IN  IF wikidata_suffix # <<>>
        THEN SlugOfName(obs.name) \o <<45>> \o wikidata_suffix
        ELSE SlugOfName(obs.name)

\* Lines 269-291: the Observatory built from a row, with the slug it has.
BuildObservatory(row) ==
    LET obs == [wikidata_id |-> IF row.uri # <<>> THEN LastSegment(row.uri) ELSE <<>>,
                name |-> row.label,
                country |-> row.country]
    IN  [wikidata_id |-> obs.wikidata_id, name |-> obs.name, country |-> obs.country,
         slug |-> slug(obs)]

\* Lines 260-291 for two rows of the result.
build_observatories ==
    /\ wd_rows # <<>>
    /\ built = <<>>
    /\ built' = [i \in 1..Len(wd_rows) |-> BuildObservatory(wd_rows[i])]
    /\ UNCHANGED <<wd_rows, raw_elevation, elevation, output_file, merge_vars, run_vars,
                   checkpoint_vars, download_vars, url_vars, find_vars>>

-----------------------------------------------------------------------------
(* run.py and validate.py: run_dedupe, then the merge of what it left *)

\* discovered.json entries at 2.005, 2.006 and 0.004 degrees of latitude,
\* as discover_observatories rounds them.
SurveyedEntries ==
    { Entry(NameAb,   20050, 0, NoMetadata),
      Entry(NameA_b,  20060, 0, NoMetadata),
      Entry(NameA__b, 20060, 0, NoMetadata),
      Entry(NameAb,   40,    0, NoMetadata) }

\* validated_observatories.json before the run: absent, empty, or holding
\* one entry merged earlier.
SurveyedFiles ==
    {NoFile, WrittenFile(<<>>)}
        \cup { WrittenFile(<<[name |-> e.name, latitude |-> e.latitude, longitude |-> e.longitude]>>) :
                   e \in SurveyedEntries }

\* The validated observatory built from a discovered entry: name and
\* coordinates as they are.
AsValidated(list) ==
    [k \in 1..Len(list) |->
        [name |-> list[k].name, latitude |-> list[k].latitude, longitude |-> list[k].longitude]]

\* run.py 105-172: run_dedupe on discovered.json against the output file.
dedupe_discovered ==
    /\ run.phases = <<>>
    /\ LET done == run_dedupe(temp_dir, output_file)
       IN  /\ temp_dir' = done.temp_dir
           /\ run' = [run EXCEPT !.phases = <<"dedupe">>,
                                 !.dedupe_input = temp_dir.discovered.observatories,
                                 !.dedupe_kept = done.kept,
                                 !.remaining = done.returned]
    /\ UNCHANGED <<args, main_pc, output_file, merge_vars, checkpoint_vars, download_vars, url_vars, find_vars, discover_vars>>

\* validate.py 124-172: the survivors merged into the same output file.
merge_survivors ==
    /\ run.phases = <<"dedupe">>
    /\ ~merge_call.called
    /\ merge_validated_observatories(AsValidated(run.remaining))
    /\ UNCHANGED <<merges, run_vars, checkpoint_vars, download_vars, url_vars, find_vars, discover_vars>>

-----------------------------------------------------------------------------
(* Specifications *)

\* No elevation at hand.
DiscoverIdle ==
    /\ raw_elevation = NoElevation
    /\ elevation = NotNormalized
    /\ wd_rows = <<>>
    /\ built = <<>>

\* No website is being looked for.
FindIdle ==
    /\ find_args = [wikidata_url |-> "", country |-> FALSE, search_func |-> FALSE,
                    prefer_https |-> FALSE, head_ok |-> FALSE,
                    answers |-> [q \in 1..3 |-> QueryAnswer(FALSE, <<>>)],
                    valid_urls |-> {}]
    /\ find_call = NoFindCall

\* No URL at hand.
UrlIdle ==
    /\ url_target = Website("", "response", NoPage)
    /\ validation = NotValidated

\* No download has been asked for.
DownloadIdle ==
    /\ _rate_limit_state = InitialRateLimitState
    /\ dl = NoDownload
    /\ dl_log = EmptyLog
    /\ commons = NoSearch

\* No checkpoint at hand.
CheckpointIdle ==
    /\ checkpoint = Data("null", JMissing, JMissing, JMissing, JMissing, <<>>)
    /\ nc_call = NotCalled
    /\ nf = NoFileCall

\* No command line: main() is not running.
RunIdle ==
    /\ args = [discover |-> FALSE, cleanup |-> FALSE, limit |-> 1]
    /\ main_pc = "idle"
    /\ temp_dir = NoTempDir
    /\ run = RunStart(NoTempDir, NoFile)

\* The file as an earlier run left it: absent, or written by a merge or by
\* generate_validated_json, which writes the list it is given as it is.
MergeInit ==
    /\ output_file \in {NoFile} \cup { WrittenFile(results) : results \in SeqsUpTo(ObsDicts, MaxNew) }
    /\ merge_call = NoCall
    /\ merges = NoInvocations
    /\ RunIdle
    /\ CheckpointIdle
    /\ DownloadIdle
    /\ UrlIdle
    /\ FindIdle
    /\ DiscoverIdle

MergeNext ==
    \E new_observatories \in SeqsUpTo(ObsDicts, MaxNew) :
        /\ merge_validated_observatories(new_observatories)
        /\ UNCHANGED <<merges, run_vars, checkpoint_vars, download_vars, url_vars, find_vars, discover_vars>>

MergeSpec == MergeInit /\ [][MergeNext]_vars

\* A command line, and the files as earlier runs left them.
RunInit ==
    /\ args \in [discover : BOOLEAN, cleanup : BOOLEAN, limit : {1, MaxDiscovered}]
    /\ main_pc = "start"
    /\ temp_dir \in {NoTempDir, TempDir(NoDiscoveryFile)}
                    \cup { TempDir(DiscoveryFile(<<e>>)) : e \in DiscoveredEntries }
    /\ output_file \in KnownFiles
    /\ run = RunStart(temp_dir, output_file)
    /\ merge_call = NoCall
    /\ merges = NoInvocations
    /\ CheckpointIdle
    /\ DownloadIdle
    /\ UrlIdle
    /\ FindIdle
    /\ DiscoverIdle

RunNext ==
    \/ main_cleanup
    \/ main_help
    \/ \E results \in SeqsUpTo(DiscoveredEntries, MaxDiscovered) : main_run_discovery(results)
    \/ main_discovery_raises
    \/ main_run_dedupe
    \/ main_run_url_validation

RunSpec == RunInit /\ [][RunNext]_vars

\* A checkpoint as the validation step wrote it.
CheckpointInit ==
    /\ checkpoint \in Checkpoints(MaxItems)
    /\ nc_call = NotCalled
    /\ nf = NoFileCall
    /\ output_file = NoFile
    /\ merge_call = NoCall
    /\ merges = NoInvocations
    /\ RunIdle
    /\ DownloadIdle
    /\ UrlIdle
    /\ FindIdle
    /\ DiscoverIdle

CheckpointNext ==
    \E expected_batch_num \in {1, 2} :
        /\ call_normalize_checkpoint(expected_batch_num)
        /\ UNCHANGED <<output_file, merge_vars, run_vars, download_vars, url_vars, find_vars, discover_vars>>

CheckpointSpec == CheckpointInit /\ [][CheckpointNext]_vars

\* The module as imported: no download made yet.
DownloadInit ==
    /\ DownloadIdle
    /\ output_file = NoFile
    /\ merge_call = NoCall
    /\ merges = NoInvocations
    /\ RunIdle
    /\ CheckpointIdle
    /\ UrlIdle
    /\ FindIdle
    /\ DiscoverIdle

DownloadNext ==
    \/ \E max_retries \in 0..MaxRetries : call_download_image(max_retries)
    \/ call_download_observatory_image
    \/ \E response \in Responses, compress_ok \in BOOLEAN :
          http_request(response, compress_ok)
    \/ reset_rate_limit_state

DownloadSpec == DownloadInit /\ [][DownloadNext]_vars

\* A URL to validate.
UrlInit ==
    /\ url_target \in Websites(MaxTokens)
    /\ validation = NotValidated
    /\ output_file = NoFile
    /\ merge_call = NoCall
    /\ merges = NoInvocations
    /\ RunIdle
    /\ CheckpointIdle
    /\ DownloadIdle
    /\ FindIdle
    /\ DiscoverIdle

UrlNext == call_validate_website_url

UrlSpec == UrlInit /\ [][UrlNext]_vars

\* An observatory, its Wikidata URL if any, a search function if any.
FindInit ==
    /\ find_args \in FindArgs
    /\ find_call = NoFindCall
    /\ output_file = NoFile
    /\ merge_call = NoCall
    /\ merges = NoInvocations
    /\ RunIdle
    /\ CheckpointIdle
    /\ DownloadIdle
    /\ UrlIdle
    /\ DiscoverIdle

FindNext == call_find_best_website_url

FindSpec == FindInit /\ [][FindNext]_vars

\* An elevation of a query result.
ElevationInit ==
    /\ raw_elevation \in RawElevations
    /\ elevation = NotNormalized
    /\ wd_rows = <<>>
    /\ built = <<>>
    /\ output_file = NoFile
    /\ merge_call = NoCall
    /\ merges = NoInvocations
    /\ RunIdle
    /\ CheckpointIdle
    /\ DownloadIdle
    /\ UrlIdle
    /\ FindIdle

ElevationNext == call_normalize_elevation

ElevationSpec == ElevationInit /\ [][ElevationNext]_vars

\* Two rows of a result, no Observatory built yet.
SlugInit ==
    /\ wd_rows \in Rows \X Rows
    /\ built = <<>>
    /\ raw_elevation = NoElevation
    /\ elevation = NotNormalized
    /\ output_file = NoFile
    /\ merge_call = NoCall
    /\ merges = NoInvocations
    /\ RunIdle
    /\ CheckpointIdle
    /\ DownloadIdle
    /\ UrlIdle
    /\ FindIdle

SlugNext == build_observatories

SlugSpec == SlugInit /\ [][SlugNext]_vars

\* A checkpoint file, normalize_file not yet called on it.
NormalizeFileInit ==
    /\ checkpoint \in CheckpointFiles
    /\ nc_call = NotCalled
    /\ nf = NoFileCall
    /\ output_file = NoFile
    /\ merge_call = NoCall
    /\ merges = NoInvocations
    /\ RunIdle
    /\ DownloadIdle
    /\ UrlIdle
    /\ FindIdle
    /\ DiscoverIdle

NormalizeFileNext ==
    \/ \E expected_batch_num \in {1, 2} : nf_load(expected_batch_num)
    \/ nf_normalize
    \/ nf_open_for_writing
    \/ nf_dump

NormalizeFileSpec == NormalizeFileInit /\ [][NormalizeFileNext]_vars

\* Two processes, each to call merge_validated_observatories once; no
\* output file, or one with no observatories.
ConcurrentMergeInit ==
    /\ output_file \in {NoFile, WrittenFile(<<>>)}
    /\ merge_call = NoCall
    /\ merges = NoInvocations
    /\ RunIdle
    /\ CheckpointIdle
    /\ DownloadIdle
    /\ UrlIdle
    /\ FindIdle
    /\ DiscoverIdle

ConcurrentMergeNext ==
    \/ \E p \in MergeProcs, new_observatories \in SeqsUpTo(ConcurrentDicts, MaxNew) :
          merge_load(p, new_observatories)
    \/ \E p \in MergeProcs : merge_open_for_writing(p)
    \/ \E p \in MergeProcs : merge_dump(p)

ConcurrentMergeSpec == ConcurrentMergeInit /\ [][ConcurrentMergeNext]_vars

\* The module as imported: no search made yet.
CommonsInit ==
    /\ DownloadIdle
    /\ output_file = NoFile
    /\ merge_call = NoCall
    /\ merges = NoInvocations
    /\ RunIdle
    /\ CheckpointIdle
    /\ UrlIdle
    /\ FindIdle
    /\ DiscoverIdle

CommonsNext ==
    \/ \E limit \in Limits : call_search_wikimedia_commons(limit)
    \/ \E outcome \in CommonsOutcomes, found \in 0..MaxFound : commons_request(outcome, found)
    \/ commons_return

CommonsSpec == CommonsInit /\ [][CommonsNext]_vars

DedupeMergeInit ==
    /\ output_file \in SurveyedFiles
    /\ temp_dir \in { TempDir(DiscoveryFile(list)) : list \in SeqsUpTo(SurveyedEntries, MaxDiscovered) }
    /\ args = [discover |-> FALSE, cleanup |-> FALSE, limit |-> 1]
    /\ main_pc = "idle"
    /\ run = RunStart(temp_dir, output_file)
    /\ merge_call = NoCall
    /\ merges = NoInvocations
    /\ CheckpointIdle
    /\ DownloadIdle
    /\ UrlIdle
    /\ FindIdle
    /\ DiscoverIdle

DedupeMergeNext ==
    \/ dedupe_discovered
    \/ merge_survivors

DedupeMergeSpec == DedupeMergeInit /\ [][DedupeMergeNext]_vars

\* The merges of a pipeline that starts without an output file, or with an
\* empty one.
FreshMergeInit ==
    /\ output_file \in {NoFile, WrittenFile(<<>>)}
    /\ merge_call = NoCall
    /\ merges = NoInvocations
    /\ RunIdle
    /\ CheckpointIdle
    /\ DownloadIdle
    /\ UrlIdle
    /\ FindIdle
    /\ DiscoverIdle

FreshMergeNext ==
    \E new_observatories \in SeqsUpTo(ObsDicts, MaxNew) :
        /\ merge_validated_observatories(new_observatories)
        /\ UNCHANGED <<merges, run_vars, checkpoint_vars, download_vars, url_vars, find_vars, discover_vars>>

FreshMergeSpec == FreshMergeInit /\ [][FreshMergeNext]_vars

-----------------------------------------------------------------------------
(* Properties of the merge *)

Occurrences(list, x) == Cardinality({ k \in 1..Len(list) : list[k] = x })

\* The entries a call met before the i-th entry of its argument: the file's
\* list and the argument's earlier entries.
MetBefore(call, i) ==
    { call.before[k] : k \in 1..Len(call.before) } \cup { call.new[j] : j \in 1..(i - 1) }

SameTruncatedCoords(a, b) ==
    /\ _truncate_coord(a.latitude, 3) = _truncate_coord(b.latitude, 3)
    /\ _truncate_coord(a.longitude, 3) = _truncate_coord(b.longitude, 3)

SameRoundedCoords(a, b) ==
    /\ round(a.latitude, 3) = round(b.latitude, 3)
    /\ round(a.longitude, 3) = round(b.longitude, 3)

\* C1: a merge call whose argument is the argument of the call right before
\* it appends nothing (new_count = 0) and returns the total_count that call
\* returned, whatever the file held at the start and whatever the list.
C1_MergeTwiceAddsNothing ==
    merge_call.repeat =>
        /\ merge_call.new_count = 0
        /\ merge_call.total_count = merge_call.prev_total

\* A repeated call whose first run appended entries, the list holding two
\* entries with one dedupe key.
C1_Witness ==
    /\ merge_call.repeat
    /\ merge_call.prev_new_count > 0
    /\ Len(merge_call.new) = 2
    /\ _make_dedupe_key(merge_call.new[1]) = _make_dedupe_key(merge_call.new[2])

\* C2: every record the file held before a merge call is in the file after
\* it, unmodified and as many times, and the total count is not below the
\* number of records held before.
C2_MergeAppendOnly ==
    merge_call.called =>
        /\ \A k \in 1..Len(merge_call.before) :
              Occurrences(output_file.observatories, merge_call.before[k])
                  >= Occurrences(merge_call.before, merge_call.before[k])
        /\ merge_call.total_count >= Len(merge_call.before)
        /\ output_file.total_validated >= Len(merge_call.before)

\* A call that found records in the file and appended to them.
C2_Witness ==
    /\ merge_call.called
    /\ Len(merge_call.before) > 0
    /\ merge_call.new_count > 0

\* C3: an entry of the argument whose coordinates, truncated to 3 decimals,
\* are those of an entry already in the file is not appended, whatever its name.
C3_SameLocationNotAppended ==
    merge_call.called =>
        \A i \in 1..Len(merge_call.new) :
            (\E k \in 1..Len(merge_call.before) :
                SameTruncatedCoords(merge_call.before[k], merge_call.new[i]))
            => i \notin merge_call.appended

C5_SortedAndCounted ==
    merge_call.called =>
        /\ \A i, j \in 1..Len(output_file.observatories) :
              i < j => ~StrLess(Lower(output_file.observatories[j].name),
                                Lower(output_file.observatories[i].name))
        /\ output_file.total_validated = Len(output_file.observatories)
        /\ merge_call.total_count = Len(output_file.observatories)

\* A call that left "a-b" before "Ab", against the order of the raw names,
\* having appended one of them.
C5_Witness ==
    /\ merge_call.called
    /\ merge_call.new_count > 0
    /\ \E i, j \in 1..Len(output_file.observatories) :
          /\ i < j
          /\ output_file.observatories[i].name = NameA_b
          /\ output_file.observatories[j].name = NameAb

-----------------------------------------------------------------------------
(* Properties of the orchestrator *)

AllPhases == <<"discovery", "dedupe", "url_validation">>

\* run_dedupe was the last phase to run.
JustDeduped == run.phases = SubSeq(AllPhases, 1, 2)

RoundedPair(obs) == << round(obs.latitude, 2), round(obs.longitude, 2) >>

RoundedPairsOf(list) == { RoundedPair(list[k]) : k \in 1..Len(list) }

\* C6: run_dedupe keeps exactly the discovered entries whose pair of
\* coordinates rounded to 2 decimals is the pair of no entry of
\* validated_observatories.json and of no entry kept earlier in the batch;
\* it returns the kept entries in their original order, and discovered.json
\* holds exactly them.
C6_DedupeKeepsNewCoordinates ==
    JustDeduped =>
        /\ \A i \in 1..Len(run.dedupe_input) :
              i \in run.dedupe_kept <=>
                  /\ RoundedPair(run.dedupe_input[i]) \notin RoundedPairsOf(output_file.observatories)
                  /\ \A j \in run.dedupe_kept :
                        j < i => RoundedPair(run.dedupe_input[j]) # RoundedPair(run.dedupe_input[i])
        /\ run.dedupe_kept \subseteq 1..Len(run.dedupe_input)
        /\ Len(run.remaining) = Cardinality(run.dedupe_kept)
        /\ \A i \in run.dedupe_kept :
              run.remaining[Cardinality({ j \in run.dedupe_kept : j <= i })] = run.dedupe_input[i]
        /\ temp_dir.discovered.exists
        /\ temp_dir.discovered.observatories = run.remaining

\* Three discovered entries of which only the second has the coordinates of
\* an entry of validated_observatories.json: the first and third are kept.
C6_Witness ==
    /\ JustDeduped
    /\ Len(run.dedupe_input) = 3
    /\ run.dedupe_kept = {1, 3}
    /\ RoundedPair(run.dedupe_input[2]) \in RoundedPairsOf(output_file.observatories)
    /\ Len(temp_dir.discovered.observatories) = 2

\* C7: the phases run in the order discovery, dedupe, URL validation; a
\* website is requested only in the URL validation phase, which follows the
\* dedupe that rewrote discovered.json; and when run_dedupe returns an empty
\* list main() returns with no URL validation and no website requested.
C7_PhasesInOrder ==
    /\ \E n \in 0..3 : run.phases = SubSeq(AllPhases, 1, n)
    /\ run.fetched # {} => run.phases = AllPhases
    /\ Len(run.phases) = 3 => run.remaining # <<>> /\ temp_dir.discovered.exists
    /\ (Len(run.phases) >= 2 /\ run.remaining = <<>>) =>
          /\ main_pc = "returned"
          /\ run.phases = SubSeq(AllPhases, 1, 2)
          /\ run.fetched = {}

\* A run whose discovered entries, one of them with a website, were all
\* dropped by run_dedupe.
C7_Witness ==
    /\ JustDeduped
    /\ main_pc = "returned"
    /\ run.remaining = <<>>
    /\ \E i \in 1..Len(run.dedupe_input) :
          run.dedupe_input[i].type_metadata.website # NoUrl

\* C8: with neither --discover nor --cleanup, main() prints help and returns:
\* no phase runs, no website is requested, and the temp directory with
\* discovered.json and validated_observatories.json stay as they were.
C8_NoFlagsOnlyHelp ==
    (~args.discover /\ ~args.cleanup) =>
        /\ main_pc \in {"start", "returned"}
        /\ main_pc = "returned" => run.help
        /\ run.phases = <<>>
        /\ run.fetched = {}
        /\ temp_dir = run.start_temp_dir
        /\ output_file = run.start_output_file

\* main() has returned from a command line giving --limit only, with a
\* discovered.json and a validated_observatories.json on disk.
C8_Witness ==
    /\ ~args.discover
    /\ ~args.cleanup
    /\ args.limit = MaxDiscovered
    /\ main_pc = "returned"
    /\ temp_dir.discovered.exists
    /\ output_file.exists

-----------------------------------------------------------------------------
(* Properties of normalize_checkpoint *)

\* The checkpoint is a dict whose "results" is a list and whose "validated"
\* is no dict: the {batch_num, results: [...]} form.
GivenAsResults ==
    /\ checkpoint.type = "dict"
    /\ checkpoint.results.t = "list"
    /\ checkpoint.validated.t # "dict"

\* C9: the three recognized shapes give the same output for the same
\* content: what normalize_checkpoint returned for {batch_num, results: items}
\* is what it returns for the bare array of the same per-observatory dicts,
\* and what it returns for the canonical dict holding that content.
C9_ThreeShapesAgree ==
    (nc_call.called /\ GivenAsResults) =>
        LET n == nc_call.expected_batch_num
            out == nc_call.outcome
        IN  /\ normalize_checkpoint(ArrayData(checkpoint.items), n) = out
            /\ out.raised = "no" =>
                  normalize_checkpoint(
                      CanonicalData(out.validated.d, out.websites_found, out.rejection_notes),
                      n) = out

\* The checkpoint has none of the three recognized shapes.
Unrecognized ==
    /\ ~(checkpoint.type = "dict" /\ checkpoint.validated.t = "dict")
    /\ ~(checkpoint.type = "dict" /\ checkpoint.results.t = "list")
    /\ checkpoint.type # "list"

\* C10: a call on a value that is neither a dict whose "validated" is a dict,
\* nor a dict whose "results" is a list, nor a list, raises ValueError and
\* returns nothing.
C10_UnrecognizedRaisesValueError ==
    (nc_call.called /\ Unrecognized) =>
        /\ nc_call.outcome.raised = "ValueError"
        /\ nc_call.outcome.validated = JMissing
        /\ nc_call.outcome.websites_found = JMissing
        /\ nc_call.outcome.rejection_notes = JMissing

\* normalize_checkpoint has been called on {"foo": "bar"} and raised.
C10_Witness ==
    /\ nc_call.called
    /\ checkpoint = Data("dict", JMissing, JMissing, JMissing, JMissing, <<>>)
    /\ nc_call.outcome.raised = "ValueError"

\* The checkpoint has one of the three recognized shapes.
Recognized ==
    \/ checkpoint.type = "dict" /\ checkpoint.validated.t = "dict"
    \/ checkpoint.type = "dict" /\ checkpoint.results.t = "list"
    \/ checkpoint.type = "list"

\* C11: a call on a dict whose "validated" is a dict, on a dict whose
\* "results" is a list, or on a list, whatever the elements of the list are,
\* raises no exception and returns the dict with batch_num, validated,
\* websites_found and rejection_notes.
C11_RecognizedNeverRaises ==
    (nc_call.called /\ Recognized) =>
        /\ nc_call.outcome.raised = "no"
        /\ nc_call.outcome.batch_num = nc_call.expected_batch_num
        /\ nc_call.outcome.validated.t # "missing"
        /\ nc_call.outcome.websites_found.t # "missing"
        /\ nc_call.outcome.rejection_notes.t # "missing"

-----------------------------------------------------------------------------
(* Properties of the downloads *)

\* The latest step was a request of a download call.
WasRequest == dl_log.last.response \in Responses

Failures == {"http_error", "request_exception", "exception"}

C13_AtMostRetriesPlusOneRequests ==
    LET e == dl_log.last
    IN  /\ dl.active => dl_log.call_requests <= dl.max_retries
        /\ WasRequest =>
              /\ dl_log.call_requests <= e.max_retries + 1
              /\ dl_log.call_requests = e.max_retries + 1 => e.ended /\ ~dl.active
              /\ (e.ended /\ dl_log.call_429s = dl_log.call_requests) => e.returned = "None"
              /\ e.response \in Failures =>
                    e.ended /\ ~dl.active /\ e.returned = "None" /\ e.slept = 0
              /\ e.ended => e.returned \in {"None", "bytes", "empty bytes", "path"}

\* A direct call with max_retries >= 2 has ended with None after
\* max_retries + 1 requests that all met a 429.
C13_Witness ==
    /\ dl_log.last.ended
    /\ dl_log.last.via = "download_image"
    /\ dl_log.last.max_retries >= 2
    /\ dl_log.call_requests = dl_log.last.max_retries + 1
    /\ dl_log.call_429s = dl_log.call_requests
    /\ dl_log.last.returned = "None"

\* C14: downloads_since_break goes up by one with each successful save of
\* download_observatory_image and with nothing else; the save that brings it
\* to 5 takes the 60-second pause and sets it to 0; so it stays in 0..4, and
\* the pauses are taken at the 5th, 10th, ... save since the last reset.
C14_BatchCounter ==
    LET e == dl_log.last
        n == _rate_limit_state.downloads_since_break
    IN  /\ n \in 0..(BATCH_SIZE - 1)
        /\ n = dl_log.saves_since_reset % BATCH_SIZE
        /\ dl_log.pauses_since_reset = dl_log.saves_since_reset \div BATCH_SIZE
        /\ WasRequest =>
              /\ e.saved => n = (e.downloads_before + 1) % BATCH_SIZE
              /\ ~e.saved => n = e.downloads_before
              /\ e.paused <=> (e.saved /\ e.downloads_before + 1 = BATCH_SIZE)

\* The fifth successful save has taken the pause and reset the counter.
C14_Witness ==
    /\ dl_log.saves_since_reset = BATCH_SIZE
    /\ dl_log.last.paused
    /\ dl_log.last.downloads_before = BATCH_SIZE - 1
    /\ _rate_limit_state.downloads_since_break = 0

\* C15: whatever the outcomes of the calls, at most 5 image requests are
\* issued between two consecutive batch pauses, or before the first one.
C15_AtMostFiveRequestsBetweenPauses ==
    dl_log.requests_since_pause <= BATCH_SIZE

-----------------------------------------------------------------------------
(* Properties of validate_website_url *)

\* validate_website_url has returned for a response with status 200 whose
\* text decodes and whose title, if any, matches no soft-404 pattern.
Validated200 ==
    /\ validation # NotValidated
    /\ url_target.url # ""
    /\ url_target.outcome = "response"
    /\ url_target.page.status_code = 200
    /\ ~url_target.page.text_raises
    /\ TitleOf(url_target.page.tokens) # "error"

\* The pieces of the page in which a soft-404 pattern matches within the
\* first 5000 characters.
HitsChecked == FindAll(url_target.page.tokens, CheckedChars)

\* The only soft-404 pattern hit in the first 5000 characters is one "404".
OnlyHitIsOne404 ==
    /\ Cardinality(HitsChecked) = 1
    /\ \A i \in HitsChecked : url_target.page.tokens[i] = "404"

\* C16: a 200 response longer than 1000 bytes, with a title matching no
\* pattern, whose only pattern hit in the first 5000 characters is a single
\* "404", is not flagged: valid = True and is_soft_404 = False.
C16_Single404NotFlagged ==
    (Validated200 /\ TextLen(url_target.page.tokens) > MIN_CONTENT_LENGTH /\ OnlyHitIsOne404) =>
        validation.valid /\ ~validation.is_soft_404

\* C16 as amended: such a page is flagged: the single "404" satisfies the
\* test '404' in content_to_check of line 160, and the result is
\* valid = False, is_soft_404 = True.
C16_Single404Flagged ==
    (Validated200 /\ TextLen(url_target.page.tokens) > MIN_CONTENT_LENGTH /\ OnlyHitIsOne404) =>
        /\ ~validation.valid
        /\ validation.is_soft_404
        /\ validation.reason = "Soft 404 detected (found)"
        /\ validation.status_code = 200

\* A long page with a clean title and one "404" has been validated.
C16_Witness ==
    /\ Validated200
    /\ url_target.page.tokens = <<"title home", "pad 995", "404">>
    /\ validation.is_soft_404

\* Exactly one pattern hit in the first 5000 characters, and not a "404".
OneHitNot404 ==
    /\ Cardinality(HitsChecked) = 1
    /\ \A i \in HitsChecked : url_target.page.tokens[i] # "404"

\* C17: for a 200 response of at least 1000 bytes whose title matches no
\* pattern, one pattern hit other than "404" in the first 5000 characters
\* leaves the page valid, and two or more hits make it a soft 404.
C17_OneHitValidTwoHitsSoft404 ==
    (Validated200 /\ TextLen(url_target.page.tokens) >= MIN_CONTENT_LENGTH) =>
        /\ OneHitNot404 => validation.valid
        /\ Cardinality(HitsChecked) >= 2 =>
              ~validation.valid /\ validation.is_soft_404

\* C17 as amended: one pattern hit other than "404" leaves the page valid
\* provided the first 5000 characters hold no substring '404' at all (such
\* as the "404" inside "14045", which is no pattern hit); two or more hits
\* make it a soft 404.
C17_OneHitValidUnless404Substring ==
    (Validated200 /\ TextLen(url_target.page.tokens) >= MIN_CONTENT_LENGTH) =>
        /\ (OneHitNot404 /\ \A i \in 1..Len(url_target.page.tokens) :
                               url_target.page.tokens[i] # "14045"
                               \/ Offset(url_target.page.tokens, i) + 4 > CheckedChars) =>
              /\ validation.valid
              /\ ~validation.is_soft_404
              /\ validation.reason = "Valid"
        /\ Cardinality(HitsChecked) >= 2 =>
              ~validation.valid /\ validation.is_soft_404

\* A page of 1000 bytes or more with one "coming soon" has been found valid.
C17_Witness ==
    /\ Validated200
    /\ TextLen(url_target.page.tokens) >= MIN_CONTENT_LENGTH
    /\ OneHitNot404
    /\ \E i \in HitsChecked : url_target.page.tokens[i] = "coming soon"
    /\ validation.valid

\* C18: a timeout, SSL error, connection error or other request exception
\* gives a result with valid = False, is_soft_404 = False and a reason that
\* is not empty; and every result with valid = True has a status code below
\* 400 and is_soft_404 = False.
C18_NetworkFailureIsInvalid ==
    validation # NotValidated =>
        /\ (url_target.outcome \in NetworkFailures) =>
              /\ ~validation.valid
              /\ ~validation.is_soft_404
              /\ validation.reason # ""
        /\ validation.valid =>
              /\ url_target.outcome = "response"
              /\ validation.status_code = url_target.page.status_code
              /\ validation.status_code < 400
              /\ ~validation.is_soft_404

\* A request that timed out has been given its result.
C18_Witness ==
    /\ validation # NotValidated
    /\ url_target.url = "http://obs.example"
    /\ url_target.outcome = "Timeout"
    /\ validation.reason = "Request timeout"

-----------------------------------------------------------------------------
(* Properties of find_best_website_url *)

\* The Wikidata URL is given and the network serves a valid page for it.
WikidataUrlValidates ==
    find_args.wikidata_url # "" /\ find_args.wikidata_url \in find_args.valid_urls

\* The URLs validated after the Wikidata URL.
CandidatesTried ==
    SubSeq(find_call.validated, IF find_args.wikidata_url # "" THEN 2 ELSE 1,
           Len(find_call.validated))

\* C19: the search function is consulted only when the Wikidata URL is
\* absent or fails validation; the candidates are then validated in
\* descending score order and the first that validates is returned with
\* source "search"; a Wikidata URL that validates is returned with source
\* "wikidata" and no search; and url is None exactly when source is None.
C19_SearchOnlyAfterWikidataFails ==
    find_call.called =>
        LET c == find_call
            n == Len(CandidatesTried)
        IN  /\ c.searched > 0 => ~WikidataUrlValidates
            /\ WikidataUrlValidates =>
                  /\ c.source = "wikidata"
                  /\ c.searched = 0
                  /\ c.validated = <<find_args.wikidata_url>>
                  /\ c.url \in {find_args.wikidata_url, HttpsUrl(find_args.wikidata_url)}
            /\ \A i, j \in 1..Len(c.candidates) :
                  i < j => _score_search_result(c.candidates[i])
                             >= _score_search_result(c.candidates[j])
            /\ n <= Len(c.candidates)
            /\ \A i \in 1..n : CandidatesTried[i] = c.candidates[i].url
            /\ \A i \in 1..(n - 1) : CandidatesTried[i] \notin find_args.valid_urls
            /\ c.source = "search" =>
                  /\ n >= 1
                  /\ c.searched > 0
                  /\ CandidatesTried[n] \in find_args.valid_urls
                  /\ c.url \in {CandidatesTried[n], HttpsUrl(CandidatesTried[n])}
            /\ c.source = "" =>
                  /\ n = Len(c.candidates)
                  /\ \A i \in 1..n : CandidatesTried[i] \notin find_args.valid_urls
            /\ c.source \in {"", "wikidata", "search"}
            /\ c.url = "" <=> c.source = ""

\* The Wikidata URL failed, the search gave five candidates, and the third
\* in score order was the first to validate.
C19_Witness ==
    /\ find_call.called
    /\ find_args.wikidata_url # ""
    /\ find_call.source = "search"
    /\ Len(find_call.candidates) = TopCandidates
    /\ Len(find_call.validated) = 4
    /\ find_call.url = find_call.candidates[3].url

-----------------------------------------------------------------------------
(* Properties of normalize_elevation *)

\* raw * 0.3048 in ten-thousandths of a metre, for the whole and half
\* metres the raw elevations are: half a metre times 0.3048 is 0.1524.
RawTimes3048 == (raw_elevation.value \div 5000) * 1524

\* C20: a raw elevation above 9000 whose product with 0.3048 lies in
\* [-500, 9000] is returned as that product with note "converted_from_feet";
\* a raw elevation in [-500, 9000] is returned unchanged with note "meters".
C20_ConvertedValueReturned ==
    (elevation # NotNormalized /\ ~raw_elevation.none) =>
        LET raw == raw_elevation.value
            product == RawTimes3048
        IN  /\ (raw > Metres(9000) /\ Metres(-500) <= product /\ product <= Metres(9000)) =>
                  /\ elevation.note = "converted_from_feet"
                  /\ ~elevation.elevation.none
                  /\ elevation.elevation.value = product
            /\ (Metres(-500) <= raw /\ raw <= Metres(9000)) =>
                  /\ elevation.note = "meters"
                  /\ elevation.elevation = raw_elevation

\* C20 as amended: the value returned with "converted_from_feet" is the
\* product rounded to one decimal place: a whole number of tenths of a
\* metre at most 0.05 away from raw * 0.3048.
C20_ConvertedValueRoundedToTenth ==
    (elevation # NotNormalized /\ ~raw_elevation.none) =>
        LET raw == raw_elevation.value
            product == RawTimes3048
        IN  /\ (raw > Metres(9000) /\ Metres(-500) <= product /\ product <= Metres(9000)) =>
                  /\ elevation.note = "converted_from_feet"
                  /\ ~elevation.elevation.none
                  /\ elevation.elevation.value % 1000 = 0
                  /\ Abs(elevation.elevation.value - product) <= 500
            /\ (Metres(-500) <= raw /\ raw <= Metres(9000)) =>
                  /\ elevation.note = "meters"
                  /\ elevation.elevation = raw_elevation

\* 9001 feet have been returned as 2743.5 metres.
C20_Witness ==
    /\ raw_elevation = Elevation(Metres(9001))
    /\ elevation.note = "converted_from_feet"
    /\ elevation.elevation = Elevation(27435000)

\* C21: the elevation normalize_elevation returns is None or within
\* [-500, 9000], so is_elevation_valid holds of it; it is None exactly when
\* the note is "no_elevation" or "invalid_value_<raw>"; and a raw value
\* below -500 whose absolute value is in range comes back as that absolute
\* value with note "corrected_sign".
C21_ElevationNoneOrInRange ==
    (elevation # NotNormalized) =>
        /\ is_elevation_valid(elevation.elevation)
        /\ elevation.elevation.none
              \/ /\ Metres(-500) <= elevation.elevation.value
                 /\ elevation.elevation.value <= Metres(9000)
        /\ elevation.elevation.none <=> elevation.note \in {"no_elevation", "invalid_value"}
        /\ (elevation.note = "no_elevation") <=> raw_elevation.none
        /\ (elevation.note = "invalid_value") => elevation.raw = raw_elevation
        /\ (/\ ~raw_elevation.none
            /\ raw_elevation.value < Metres(-500)
            /\ 0 - raw_elevation.value <= Metres(9000)) =>
                /\ elevation.note = "corrected_sign"
                /\ elevation.elevation = Elevation(0 - raw_elevation.value)

\* -500.5 has been returned as 500.5 with note "corrected_sign".
C21_Witness ==
    /\ raw_elevation = Elevation(HalfMetres(-1001))
    /\ elevation.note = "corrected_sign"
    /\ elevation.elevation = Elevation(5005000)

-----------------------------------------------------------------------------
(* Properties of Observatory.slug *)

\* C22: two observatories with equal name and wikidata_id have equal slugs,
\* whatever their other fields; two with equal names and different
\* wikidata_ids have different slugs.
C22_SlugDistinguishesWikidataIds ==
    (built # <<>>) =>
        /\ (built[1].name = built[2].name /\ built[1].wikidata_id = built[2].wikidata_id)
              => built[1].slug = built[2].slug
        /\ (built[1].name = built[2].name /\ built[1].wikidata_id # built[2].wikidata_id)
              => built[1].slug # built[2].slug

\* "A  b" of Q1 in Chile and "A  b" of Q12 of unknown country have the
\* slugs "a-b-q1" and "a-b-q12".
C22_Witness ==
    /\ built # <<>>
    /\ built[1].name = NameA__b /\ built[2].name = NameA__b
    /\ built[1].country # built[2].country
    /\ built[1].slug = <<97, 45, 98, 45, 113, 49>>
    /\ built[2].slug = <<97, 45, 98, 45, 113, 49, 50>>

-----------------------------------------------------------------------------
(* Properties of normalize_file *)

\* C23: once normalize_file has returned, the checkpoint file holds the
\* canonical form of what it read: the dict normalize_checkpoint gives for
\* it; and when json.load or normalize_checkpoint raised, the file is as it
\* was, at every moment of the call and after it.
C23_FileRewrittenOrUntouched ==
    /\ nf.pc = "returned" =>
          LET normalized == normalize_checkpoint(nf.original, nf.expected_batch_num)
          IN  /\ normalized.raised = "no"
              /\ checkpoint.type = "dict"
              /\ checkpoint.batch_num = nf.expected_batch_num
              /\ checkpoint.validated = normalized.validated
              /\ checkpoint.websites_found = normalized.websites_found
              /\ checkpoint.rejection_notes = normalized.rejection_notes
              /\ checkpoint.results = JMissing
    /\ (nf.pc \notin {"idle", "loaded"} /\ nf.outcome.raised # "no") =>
          /\ checkpoint = nf.original
          /\ nf.pc = "raised"

\* normalize_file has raised ValueError on {"foo": "bar"} with batch_num 3,
\* and the file is as it was.
C23_Witness ==
    /\ nf.pc = "raised"
    /\ nf.outcome.raised = "ValueError"
    /\ checkpoint = CarryingBatchNum(Data("dict", JMissing, JMissing, JMissing, JMissing, <<>>), 3)

-----------------------------------------------------------------------------
(* Properties of concurrent merges *)

\* The entries of the output file.
FileEntries == { output_file.observatories[k] : k \in 1..Len(output_file.observatories) }

\* C24: as long as no invocation has loaded the file while another stood
\* between its load and the end of its write, every entry an invocation
\* counted as added is in the file; when two invocations both load before
\* either writes, an entry one of them counted as added can be missing from
\* the final file (the state C24_Witness).
C24_SerializedMergesLoseNothing ==
    ~merges.overlapped => merges.counted \subseteq FileEntries

\* Both processes loaded the file before either wrote it, both have
\* returned, and an entry counted as added is not in the file.
C24_Witness ==
    /\ merges.overlapped
    /\ \A p \in MergeProcs : merges.inv[p].pc = "returned" /\ merges.inv[p].added # {}
    /\ merges.counted \ FileEntries # {}

-----------------------------------------------------------------------------
(* Properties of search_wikimedia_commons *)

\* C25: within search_wikimedia_commons every Commons API request,
\* whatever its outcome, is followed by the 3-second COMMONS_DELAY sleep
\* before the next request is issued: no request is issued with no sleep
\* since the request before it.
C25_EveryRequestFollowedByDelay ==
    /\ commons.unpaced = 0
    /\ (commons.requests > 0 /\ commons.pc = "loop" /\ commons.term <= EnhancedTerms
          /\ commons.results < commons.limit) => commons.slept = 3

-----------------------------------------------------------------------------
(* Properties of run_url_validation *)

\* C26: after run_url_validation discovered.json holds the entries run_dedupe
\* left, in their order, with name, coordinates and phone fields unchanged;
\* an entry has a website only if it had one and its validation returned
\* valid; and no entry has a type_metadata without phone and website.
C26_OnlyWebsiteChanges ==
    (run.phases = AllPhases) =>
        LET before == run.remaining
            after == temp_dir.discovered.observatories
        IN  /\ Len(after) = Len(before)
            /\ \A k \in 1..Len(before) :
                  /\ after[k].name = before[k].name
                  /\ after[k].latitude = before[k].latitude
                  /\ after[k].longitude = before[k].longitude
                  /\ after[k].type_metadata.phone = before[k].type_metadata.phone
                  /\ after[k].type_metadata.website # NoUrl =>
                        /\ before[k].type_metadata.website # NoUrl
                        /\ run.url_outcomes[k].valid
                  /\ after[k].type_metadata.present =>
                        \/ after[k].type_metadata.phone
                        \/ after[k].type_metadata.website # NoUrl

\* URL validation has run on two entries whose websites were both invalid:
\* the one with a phone keeps its type_metadata without the website, the
\* one without loses its type_metadata.
C26_Witness ==
    /\ run.phases = AllPhases
    /\ Len(run.remaining) = 2
    /\ \A k \in 1..2 : run.remaining[k].type_metadata.website # NoUrl /\ ~run.url_outcomes[k].valid
    /\ run.remaining[1].type_metadata.phone
    /\ temp_dir.discovered.observatories[1].type_metadata = Metadata(TRUE, NoUrl)
    /\ temp_dir.discovered.observatories[2].type_metadata = NoMetadata

-----------------------------------------------------------------------------
(* Properties of a failed download_observatory_image *)

\* C27: a call of download_observatory_image in which download_image gave no
\* bytes or compress_image gave no data returns None, saves no file, sleeps
\* no 10-second delay, takes no batch pause and leaves downloads_since_break
\* as it was; a call in which both gave data returns the path, saves, sleeps
\* the delay and counts the download.
C27_FailedDownloadLeavesNoTrace ==
    LET e == dl_log.last
        n == _rate_limit_state.downloads_since_break
        failed == e.response # "ok" \/ ~e.compressed
    IN  (e.ended /\ e.via = "download_observatory_image") =>
            /\ failed =>
                  /\ e.returned = "None"
                  /\ ~e.saved
                  /\ e.delay_slept = 0
                  /\ ~e.paused
                  /\ n = e.downloads_before
            /\ ~failed =>
                  /\ e.returned = "path"
                  /\ e.saved
                  /\ e.delay_slept = IMAGE_DOWNLOAD_DELAY
                  /\ n = (e.downloads_before + 1) % BATCH_SIZE

\* After four saved downloads compress_image failed on the bytes of a fifth:
\* the call returned None and the counter still stands at four.
C27_Witness ==
    /\ dl_log.last.ended
    /\ dl_log.last.via = "download_observatory_image"
    /\ dl_log.last.response = "ok"
    /\ ~dl_log.last.compressed
    /\ dl_log.last.returned = "None"
    /\ dl_log.last.downloads_before = BATCH_SIZE - 1
    /\ _rate_limit_state.downloads_since_break = BATCH_SIZE - 1

-----------------------------------------------------------------------------
(* Properties of run_dedupe followed by the merge *)

\* C28: when the entries run_dedupe left are merged into the output file
\* they were deduplicated against, every one of them is appended: new_count
\* is their number.
C28_EverySurvivorAppended ==
    (run.phases = <<"dedupe">> /\ merge_call.called) =>
        merge_call.new_count = Len(run.remaining)

-----------------------------------------------------------------------------
(* Properties of a file built by merges alone *)

\* C29: in an output file that merges built from nothing, no two entries
\* have the same dedupe key (truncated latitude, truncated longitude,
\* normalized name).
C29_NoTwoEntriesShareAKey ==
    \A i, j \in 1..Len(output_file.observatories) :
        i # j => _make_dedupe_key(output_file.observatories[i])
                    # _make_dedupe_key(output_file.observatories[j])

\* A later merge dropped an entry whose key the file already held and
\* appended another one.
C29_Witness ==
    /\ merge_call.called
    /\ merge_call.before # <<>>
    /\ merge_call.new_count = 1
    /\ Len(merge_call.new) = 2
    /\ _make_dedupe_key(merge_call.new[1]) # _make_dedupe_key(merge_call.new[2])
    /\ Len(output_file.observatories) >= 2

-----------------------------------------------------------------------------
(* Properties of normalize_checkpoint applied to its own result *)

\* C30: whenever normalize_checkpoint(x, n) returns, its result carries
\* batch_num n, whatever batch_num x carried, and normalize_checkpoint of
\* that result with n returns the same result.
C30_IdempotentWithExpectedBatchNum ==
    (nc_call.called /\ nc_call.outcome.raised = "no") =>
        /\ nc_call.outcome.batch_num = nc_call.expected_batch_num
        /\ normalize_checkpoint(AsData(nc_call.outcome), nc_call.expected_batch_num)
              = nc_call.outcome

\* A checkpoint in the old format that carries batch_num 3 was normalized
\* with expected batch number 2 into a result that has a validated slug.
C30_Witness ==
    /\ nc_call.called
    /\ nc_call.outcome.raised = "no"
    /\ nc_call.expected_batch_num = 2
    /\ checkpoint.batch_num = 3
    /\ checkpoint.results.t = "list"
    /\ nc_call.outcome.validated # JDict(EmptyDict)

====
